---------------------------- MODULE Spec2Model ----------------------------
(***************************************************************************)
(* SQLPulse: the schema model (internal/core/domain), the structural       *)
(* comparator (internal/core/services) and the diff result renderers.      *)
(*                                                                         *)
(* Text is modelled by TLA+ strings built with \o; the free-text           *)
(* definitions of views, procedures, functions and triggers are sequences  *)
(* of one-character strings, because normalizeWhitespace works on          *)
(* characters.  A Go map is a function on its key set; a `range` over a    *)
(* map visits the keys in an unspecified order, so every operator that     *)
(* ranges over a map yields the SET of difference lists the loop can       *)
(* produce.                                                                *)
(***************************************************************************)
EXTENDS Integers, Sequences, FiniteSets, TLC

VARIABLES
    source,     \* *domain.DatabaseSchema handed to Compare as source
    target,     \* *domain.DatabaseSchema handed to Compare as target
    options,    \* *domain.DiffOptions of the SchemaComparator
    pc,         \* position of the run: ready, compared, swapped, printed
    result,     \* *domain.DiffResult returned by Compare(source, target)
    reverse,    \* *domain.DiffResult returned by Compare(target, source)
    script,     \* the lines result.GenerateMigrationScript() returned
    report,     \* lines of result.PrintGitStyle()
    flags,      \* the diff command's --format, --generate-migration and
                \* --migration-file
    output,     \* what runDiff has written so far, in order: stdout,
                \* stderr and the migration file
    returned,   \* the error runDiff returned, once it has returned
    sourceConfig,   \* GetConnectionConfig(): the global connection flags
    targetFlags,    \* the --target-* flags of the diff command
    targetConfig,   \* the target configuration runDiff derives
    calls       \* the calls runDiff has made on the adapters, the
                \* extractors and the comparator, in order

cli == <<flags, output, returned, sourceConfig, targetFlags, targetConfig, calls>>

VARIABLES
    config,     \* Adapter.config
    db,         \* Adapter.db: nil, an open pool, or a pool that was closed
    approver,   \* Adapter.approver
    dryRun,     \* the global --dry-run flag
    stdin,      \* the lines not yet read from os.Stdin
    executed,   \* the SQL texts handed to the database, in order
    outcome     \* what the last call on the adapter or the approver did
                \* and returned

adapter == <<config, db, approver, dryRun, stdin, executed, outcome>>

vars == <<source, target, options, pc, result, reverse, report, script, cli, adapter>>

(***************************************************************************)
(* Generic helpers                                                         *)
(***************************************************************************)
RECURSIVE Join(_, _)
\* strings.Join(parts, sep)
Join(parts, sep) ==
    IF Len(parts) = 0 THEN ""
    ELSE IF Len(parts) = 1 THEN parts[1]
    ELSE parts[1] \o sep \o Join(Tail(parts), sep)

\* fmt verb %v of a bool
FmtBool(b) == IF b THEN "true" ELSE "false"

\* fmt verb %d of an int
FmtInt(n) == ToString(n)

MaxOf(S) == CHOOSE x \in S : \A y \in S : y <= x

\* m := make(map); for _, x := range list { m[key(x)] = x }, keys[i] being
\* the key of list[i]: a later element with the same key replaces an earlier
\* one.
SliceToMap(list, keys) ==
    [k \in {keys[i] : i \in DOMAIN list} |->
        list[MaxOf({i \in DOMAIN list : keys[i] = k})]]

\* the loop left after its first iteration
RangeOver_breaks(keys, Body) ==
    IF keys = {} THEN {<<>>} ELSE UNION {Body[k] : k \in keys}

\* for k := range m { append Body[k] }: the blocks of the keys, concatenated
\* in any order of the keys.  Body[k] is the set of blocks key k can append.
RECURSIVE RangeOver(_, _)
RangeOver(keys, Body) ==
    IF keys = {} THEN {<<>>}
    ELSE UNION {{b \o rest : b \in Body[k], rest \in RangeOver(keys \ {k}, Body)}
                : k \in keys}

\* statements in sequence: every first part followed by every second part
Then(A, B) == {a \o b : a \in A, b \in B}

(***************************************************************************)
(* domain: DiffType, DiffCategory, Difference (connection.go 117-167)      *)
(***************************************************************************)
DiffAdded    == "ADDED"
DiffRemoved  == "REMOVED"
DiffModified == "MODIFIED"

DiffCategorySchema     == "SCHEMA"
DiffCategoryTable      == "TABLE"
DiffCategoryColumn     == "COLUMN"
DiffCategoryIndex      == "INDEX"
DiffCategoryForeignKey == "FOREIGN_KEY"
DiffCategoryConstraint == "CONSTRAINT"
DiffCategoryView       == "VIEW"
DiffCategoryProcedure  == "PROCEDURE"
DiffCategoryFunction   == "FUNCTION"
DiffCategoryTrigger    == "TRIGGER"

\* a Difference literal; the fields a literal leaves out are Go's zero value ""
Difference(type, category, object, property, srcValue, tgtValue, description, sql) ==
    [Type |-> type, Category |-> category, ObjectName |-> object,
     PropertyName |-> property, SourceValue |-> srcValue, TargetValue |-> tgtValue,
     Description |-> description, MigrationSQL |-> sql]

(***************************************************************************)
(* domain: the schema model and its DDL rendering (schema.go)              *)
(***************************************************************************)
\* The data type names the model draws from, with their strings.ToUpper
\* image; the names starting with "N" after upper-casing are NPrefixed.
DataTypes == {"int", "varchar", "nvarchar", "NChar", "decimal", "datetime2"}

ToUpper(s) ==
    CASE s = "int"       -> "INT"
      [] s = "varchar"   -> "VARCHAR"
      [] s = "nvarchar"  -> "NVARCHAR"
      [] s = "NChar"     -> "NCHAR"
      [] s = "decimal"   -> "DECIMAL"
      [] s = "datetime2" -> "DATETIME2"
      [] s = "VarChar"   -> "VARCHAR"
      [] s = "char"      -> "CHAR"
      [] s = "varbinary" -> "VARBINARY"
      [] s = "Binary"    -> "BINARY"
      [] s = "numeric"   -> "NUMERIC"
      [] s = "Decimal"   -> "DECIMAL"
      [] s = "datetimeoffset" -> "DATETIMEOFFSET"
      [] s = "time"      -> "TIME"
      [] s = "ntext"     -> "NTEXT"
      [] s = "float"     -> "FLOAT"
      [] s = "datetime"  -> "DATETIME"
      [] OTHER           -> s

\* strings.HasPrefix(upper, "N")
HasPrefixN_never(upper) == FALSE

HasPrefixN(upper) == upper \in {"NVARCHAR", "NCHAR", "NUMERIC", "NTEXT"}

\* Column.GenerateSQL
ColumnGenerateSQL(c) ==
    LET head == "[" \o c.Name \o "] "
        up == ToUpper(c.DataType)
        length ==
            IF up \in {"VARCHAR", "NVARCHAR", "CHAR", "NCHAR", "VARBINARY", "BINARY"}
            THEN IF c.MaxLength = -1 THEN "(MAX)"
                 ELSE IF HasPrefixN(up)
                      THEN "(" \o FmtInt(c.MaxLength \div 2) \o ")"
                      ELSE "(" \o FmtInt(c.MaxLength) \o ")"
            ELSE IF up \in {"DECIMAL", "NUMERIC"}
            THEN "(" \o FmtInt(c.Precision) \o "," \o FmtInt(c.Scale) \o ")"
            ELSE IF up \in {"DATETIME2", "DATETIMEOFFSET", "TIME"}
            THEN IF c.Scale > 0 THEN "(" \o FmtInt(c.Scale) \o ")" ELSE ""
            ELSE ""
        identity ==
            IF c.IsIdentity
            THEN " IDENTITY(" \o FmtInt(c.IdentitySeed) \o "," \o
                 FmtInt(c.IdentityIncrement) \o ")"
            ELSE ""
        nullability == IF c.IsNullable THEN " NULL" ELSE " NOT NULL"
        default ==
            IF c.HasDefault /\ c.DefaultValue # ""
            THEN " DEFAULT " \o c.DefaultValue ELSE ""
    IN  IF c.IsComputed
        THEN head \o "AS " \o c.ComputedDefinition
        ELSE head \o c.DataType \o length \o identity \o nullability \o default

\* the elements of a list that satisfy a test, in list order
RECURSIVE SelectCols(_, _)
SelectCols(cols, included) ==
    IF Len(cols) = 0 THEN <<>>
    ELSE (IF cols[1].IsIncluded = included THEN <<cols[1]>> ELSE <<>>)
         \o SelectCols(Tail(cols), included)

\* Index.GenerateSQL
IndexGenerateSQL(i) ==
    LET keys == SelectCols(i.Columns, FALSE)
        incl == SelectCols(i.Columns, TRUE)
        keyCols == [n \in DOMAIN keys |->
                      "    [" \o keys[n].Name \o "]" \o
                      (IF keys[n].IsDescending THEN " DESC" ELSE "")]
        includeCols == [n \in DOMAIN incl |-> "    [" \o incl[n].Name \o "]"]
    IN  IF i.IsPrimaryKey THEN ""
        ELSE "CREATE " \o (IF i.IsUnique THEN "UNIQUE " ELSE "") \o
             (IF i.IsClustered THEN "CLUSTERED " ELSE "NONCLUSTERED ") \o
             "INDEX [" \o i.Name \o "] ON [" \o i.SchemaName \o "].[" \o
             i.TableName \o "] (\n" \o Join(keyCols, ",\n") \o "\n)" \o
             (IF Len(includeCols) > 0
              THEN " INCLUDE (\n" \o Join(includeCols, ",\n") \o "\n)" ELSE "") \o
             (IF i.FilterDefinition # ""
              THEN " WHERE " \o i.FilterDefinition ELSE "")

\* the referential action written as stored, underscores kept
ReplaceUnderscore_kept(action) == action

\* strings.ReplaceAll(action, "_", " ") over the referential actions
ReplaceUnderscore(action) ==
    CASE action = "NO_ACTION"   -> "NO ACTION"
      [] action = "SET_NULL"    -> "SET NULL"
      [] action = "SET_DEFAULT" -> "SET DEFAULT"
      [] OTHER                  -> action

\* ForeignKey.GenerateSQL
ForeignKeyGenerateSQL(fk) ==
    LET cols == [n \in DOMAIN fk.Columns |->
                    "    [" \o fk.Columns[n].ColumnName \o "]"]
        refCols == [n \in DOMAIN fk.Columns |->
                    "    [" \o fk.Columns[n].ReferencedColumnName \o "]"]
    IN  "ALTER TABLE [" \o fk.SchemaName \o "].[" \o fk.TableName \o
        "] ADD CONSTRAINT [" \o fk.Name \o "] FOREIGN KEY (\n" \o
        Join(cols, ",\n") \o
        "\n) REFERENCES [" \o fk.ReferencedSchemaName \o "].[" \o
        fk.ReferencedTableName \o "] (\n" \o Join(refCols, ",\n") \o "\n)" \o
        (IF fk.DeleteAction # "" /\ fk.DeleteAction # "NO_ACTION"
         THEN " ON DELETE " \o ReplaceUnderscore(fk.DeleteAction) ELSE "") \o
        (IF fk.UpdateAction # "" /\ fk.UpdateAction # "NO_ACTION"
         THEN " ON UPDATE " \o ReplaceUnderscore(fk.UpdateAction) ELSE "")

\* CheckConstraint.GenerateSQL
CheckConstraintGenerateSQL(cc) ==
    "ALTER TABLE [" \o cc.SchemaName \o "].[" \o cc.TableName \o
    "] ADD CONSTRAINT [" \o cc.Name \o "] CHECK " \o cc.Definition

\* DefaultDiffOptions
DefaultDiffOptions ==
    [IncludeTables |-> TRUE, IncludeViews |-> TRUE, IncludeProcedures |-> TRUE,
     IncludeFunctions |-> TRUE, IncludeTriggers |-> TRUE, IncludeIndexes |-> TRUE,
     IncludeForeignKeys |-> TRUE, IncludeConstraints |-> TRUE,
     IgnoreCollation |-> FALSE, IgnoreWhitespace |-> TRUE]

(***************************************************************************)
(* services: SchemaComparator (part_003 776-1478)                          *)
(***************************************************************************)
\* the characters Go's regexp class \s matches: [\t\n\f\r ]
RegexpSpace == {" ", "\t", "\n", "\f", "\r"}

\* regexp.MustCompile(`\s+`).ReplaceAllString(s, " "): every maximal run of
\* \s characters becomes one space
RECURSIVE ReplaceRuns(_)
ReplaceRuns(s) ==
    IF Len(s) = 0 THEN <<>>
    ELSE IF s[1] \in RegexpSpace
         THEN IF Len(s) > 1 /\ s[2] \in RegexpSpace
              THEN ReplaceRuns(Tail(s))
              ELSE <<" ">> \o ReplaceRuns(Tail(s))
         ELSE <<s[1]>> \o ReplaceRuns(Tail(s))

\* strings.TrimSpace(s): after ReplaceRuns the only white space left in the
\* modelled alphabet is " "
RECURSIVE TrimSpace(_)
TrimSpace(s) ==
    IF Len(s) = 0 THEN s
    ELSE IF s[1] \in RegexpSpace THEN TrimSpace(Tail(s))
    ELSE IF s[Len(s)] \in RegexpSpace THEN TrimSpace(SubSeq(s, 1, Len(s) - 1))
    ELSE s

\* normalizeWhitespace that only trims the ends
normalizeWhitespace_trimOnly(s) == TrimSpace(s)

\* SchemaComparator.normalizeWhitespace
normalizeWhitespace(s) == TrimSpace(ReplaceRuns(s))

\* definitionsEqual normalising the source text only
definitionsEqual_sourceOnly(opts, src, tgt) ==
    IF opts.IgnoreWhitespace
    THEN normalizeWhitespace(src) = tgt
    ELSE src = tgt

\* definitionsEqual accepting a text that equals the other's normal form
definitionsEqual_eitherSide(opts, src, tgt) ==
    IF opts.IgnoreWhitespace
    THEN normalizeWhitespace(src) = tgt \/ src = normalizeWhitespace(tgt) \/ src = tgt
    ELSE src = tgt

\* SchemaComparator.definitionsEqual
definitionsEqual(opts, src, tgt) ==
    IF opts.IgnoreWhitespace
    THEN normalizeWhitespace(src) = normalizeWhitespace(tgt)
    ELSE src = tgt

\* SchemaComparator.formatTableName
formatTableName(t) == "[" \o t.SchemaName \o "].[" \o t.Name \o "]"

NameOf(x) == x.Name
QualifiedName(x) == "[" \o x.SchemaName \o "].[" \o x.Name \o "]"
TriggerName(t) ==
    "[" \o t.SchemaName \o "].[" \o t.TableName \o "].[" \o t.Name \o "]"

tablesToMap(tables) ==
    SliceToMap(tables, [i \in DOMAIN tables |-> formatTableName(tables[i])])
\* columnsToMap keyed by the ordinal position instead of the name
columnsToMap_byOrdinal(columns) ==
    SliceToMap(columns,
               [i \in DOMAIN columns |-> FmtInt(columns[i].OrdinalPosition)])

columnsToMap(columns) ==
    SliceToMap(columns, [i \in DOMAIN columns |-> NameOf(columns[i])])
indexesToMap(indexes) ==
    SliceToMap(indexes, [i \in DOMAIN indexes |-> NameOf(indexes[i])])
foreignKeysToMap(fks) ==
    SliceToMap(fks, [i \in DOMAIN fks |-> NameOf(fks[i])])
checkConstraintsToMap(ccs) ==
    SliceToMap(ccs, [i \in DOMAIN ccs |-> NameOf(ccs[i])])
viewsToMap(views) ==
    SliceToMap(views, [i \in DOMAIN views |-> QualifiedName(views[i])])
proceduresToMap(procs) ==
    SliceToMap(procs, [i \in DOMAIN procs |-> QualifiedName(procs[i])])
functionsToMap(funcs) ==
    SliceToMap(funcs, [i \in DOMAIN funcs |-> QualifiedName(funcs[i])])
triggersToMap(triggers) ==
    SliceToMap(triggers, [i \in DOMAIN triggers |-> TriggerName(triggers[i])])

\* indexColumnsToString without the direction marker
indexColumnsToString_noDirection(cols) ==
    Join([n \in DOMAIN cols |->
            cols[n].Name \o
            (IF cols[n].IsIncluded THEN " (INCLUDE)" ELSE "")], ", ")

\* SchemaComparator.indexColumnsToString
indexColumnsToString(cols) ==
    Join([n \in DOMAIN cols |->
            cols[n].Name \o (IF cols[n].IsDescending THEN " DESC" ELSE "") \o
            (IF cols[n].IsIncluded THEN " (INCLUDE)" ELSE "")], ", ")

\* the nullability texts exchanged
NullText_exchanged(isNullable) == IF isNullable THEN "NOT NULL" ELSE "NULL"

\* srcNull, tgtNull of compareColumnDetails: "NULL", or "NOT NULL" when the
\* column is not nullable
NullText(isNullable) == IF isNullable THEN "NULL" ELSE "NOT NULL"

\* the collation compared whatever the options say
collationCompared_always(opts) == TRUE

\* the guard of the collation comparison: !c.options.IgnoreCollation
collationCompared(opts) == ~opts.IgnoreCollation

\* SchemaComparator.compareColumnDetails: the records it appends, in order
compareColumnDetails(opts, tableName, src, tgt) ==
    LET colName == tableName \o "." \o src.Name IN
    (IF src.DataType # tgt.DataType
     THEN <<Difference(DiffModified, DiffCategoryColumn, colName, "DataType",
              src.DataType, tgt.DataType,
              "Data type differs: " \o src.DataType \o " vs " \o tgt.DataType,
              "ALTER TABLE " \o tableName \o " ALTER COLUMN [" \o src.Name \o
              "] " \o src.DataType \o ";")>>
     ELSE <<>>) \o
    (IF src.MaxLength # tgt.MaxLength
     THEN <<Difference(DiffModified, DiffCategoryColumn, colName, "MaxLength",
              FmtInt(src.MaxLength), FmtInt(tgt.MaxLength),
              "Max length differs: " \o FmtInt(src.MaxLength) \o " vs " \o
              FmtInt(tgt.MaxLength), "")>>
     ELSE <<>>) \o
    (IF src.Precision # tgt.Precision \/ src.Scale # tgt.Scale
     THEN LET sv == "(" \o FmtInt(src.Precision) \o "," \o FmtInt(src.Scale) \o ")"
              tv == "(" \o FmtInt(tgt.Precision) \o "," \o FmtInt(tgt.Scale) \o ")"
          IN <<Difference(DiffModified, DiffCategoryColumn, colName,
                 "Precision/Scale", sv, tv,
                 "Precision/Scale differs: " \o sv \o " vs " \o tv, "")>>
     ELSE <<>>) \o
    (IF src.IsNullable # tgt.IsNullable
     THEN <<Difference(DiffModified, DiffCategoryColumn, colName, "Nullability",
              NullText(src.IsNullable), NullText(tgt.IsNullable),
              "Nullability differs: " \o NullText(src.IsNullable) \o " vs " \o
              NullText(tgt.IsNullable), "")>>
     ELSE <<>>) \o
    (IF src.IsIdentity # tgt.IsIdentity
     THEN <<Difference(DiffModified, DiffCategoryColumn, colName, "Identity",
              FmtBool(src.IsIdentity), FmtBool(tgt.IsIdentity),
              "Identity property differs", "")>>
     ELSE <<>>) \o
    (IF collationCompared(opts) /\ src.Collation # tgt.Collation
     THEN <<Difference(DiffModified, DiffCategoryColumn, colName, "Collation",
              src.Collation, tgt.Collation,
              "Collation differs: " \o src.Collation \o " vs " \o tgt.Collation,
              "")>>
     ELSE <<>>)

\* SchemaComparator.compareColumns
compareColumns(opts, tableName, src, tgt) ==
    LET sourceMap == columnsToMap(src)
        targetMap == columnsToMap(tgt)
        removed == [name \in DOMAIN sourceMap |->
            {IF name \notin DOMAIN targetMap
             THEN <<Difference(DiffRemoved, DiffCategoryColumn,
                      tableName \o "." \o name, "", "", "",
                      "Column [" \o name \o "] missing in target",
                      "ALTER TABLE " \o tableName \o " ADD " \o
                      ColumnGenerateSQL(sourceMap[name]) \o ";")>>
             ELSE <<>>}]
        added == [name \in DOMAIN targetMap |->
            {IF name \notin DOMAIN sourceMap
             THEN <<Difference(DiffAdded, DiffCategoryColumn,
                      tableName \o "." \o name, "", "", "",
                      "Column [" \o name \o "] exists only in target",
                      "ALTER TABLE " \o tableName \o " DROP COLUMN [" \o name \o
                      "];")>>
             ELSE <<>>}]
        both == [name \in DOMAIN sourceMap |->
            {IF name \in DOMAIN targetMap
             THEN compareColumnDetails(opts, tableName, sourceMap[name],
                                       targetMap[name])
             ELSE <<>>}]
    IN  Then(RangeOver(DOMAIN sourceMap, removed),
             Then(RangeOver(DOMAIN targetMap, added),
                  RangeOver(DOMAIN sourceMap, both)))

\* SchemaComparator.compareIndexDetails: the records it appends, in order
compareIndexDetails(tableName, src, tgt) ==
    LET idxName == tableName \o "." \o src.Name
        srcCols == indexColumnsToString(src.Columns)
        tgtCols == indexColumnsToString(tgt.Columns)
    IN
    (IF src.IsUnique # tgt.IsUnique
     THEN <<Difference(DiffModified, DiffCategoryIndex, idxName, "IsUnique",
              FmtBool(src.IsUnique), FmtBool(tgt.IsUnique),
              "Unique property differs", "")>>
     ELSE <<>>) \o
    (IF src.IsClustered # tgt.IsClustered
     THEN <<Difference(DiffModified, DiffCategoryIndex, idxName, "IsClustered",
              FmtBool(src.IsClustered), FmtBool(tgt.IsClustered),
              "Clustered property differs", "")>>
     ELSE <<>>) \o
    (IF srcCols # tgtCols
     THEN <<Difference(DiffModified, DiffCategoryIndex, idxName, "Columns",
              srcCols, tgtCols,
              "Index columns differ: [" \o srcCols \o "] vs [" \o tgtCols \o "]",
              "")>>
     ELSE <<>>)

\* SchemaComparator.compareIndexes
compareIndexes(tableName, src, tgt) ==
    LET sourceMap == indexesToMap(src)
        targetMap == indexesToMap(tgt)
        removed == [name \in DOMAIN sourceMap |->
            {IF name \notin DOMAIN targetMap
             THEN <<Difference(DiffRemoved, DiffCategoryIndex,
                      tableName \o "." \o name, "", "", "",
                      "Index [" \o name \o "] missing in target",
                      IndexGenerateSQL(sourceMap[name]) \o ";")>>
             ELSE <<>>}]
        added == [name \in DOMAIN targetMap |->
            {IF name \notin DOMAIN sourceMap
             THEN <<Difference(DiffAdded, DiffCategoryIndex,
                      tableName \o "." \o name, "", "", "",
                      "Index [" \o name \o "] exists only in target",
                      "DROP INDEX [" \o name \o "] ON " \o tableName \o ";")>>
             ELSE <<>>}]
        both == [name \in DOMAIN sourceMap |->
            {IF name \in DOMAIN targetMap
             THEN compareIndexDetails(tableName, sourceMap[name], targetMap[name])
             ELSE <<>>}]
    IN  Then(RangeOver(DOMAIN sourceMap, removed),
             Then(RangeOver(DOMAIN targetMap, added),
                  RangeOver(DOMAIN sourceMap, both)))

\* compareForeignKeys with a third loop that compares the referenced table
\* of the foreign keys present on both sides
compareForeignKeys_comparesReference(tableName, src, tgt) ==
    LET sourceMap == foreignKeysToMap(src)
        targetMap == foreignKeysToMap(tgt)
        removed == [name \in DOMAIN sourceMap |->
            {IF name \notin DOMAIN targetMap
             THEN <<Difference(DiffRemoved, DiffCategoryForeignKey,
                      tableName \o "." \o name, "", "", "",
                      "Foreign key [" \o name \o "] missing in target",
                      ForeignKeyGenerateSQL(sourceMap[name]) \o ";")>>
             ELSE <<>>}]
        added == [name \in DOMAIN targetMap |->
            {IF name \notin DOMAIN sourceMap
             THEN <<Difference(DiffAdded, DiffCategoryForeignKey,
                      tableName \o "." \o name, "", "", "",
                      "Foreign key [" \o name \o "] exists only in target",
                      "ALTER TABLE " \o tableName \o " DROP CONSTRAINT [" \o
                      name \o "];")>>
             ELSE <<>>}]
        both == [name \in DOMAIN sourceMap |->
            {IF /\ name \in DOMAIN targetMap
                /\ sourceMap[name].ReferencedTableName #
                      targetMap[name].ReferencedTableName
             THEN <<Difference(DiffModified, DiffCategoryForeignKey,
                      tableName \o "." \o name, "ReferencedTable",
                      sourceMap[name].ReferencedTableName,
                      targetMap[name].ReferencedTableName,
                      "Foreign key [" \o name \o "] references another table",
                      "")>>
             ELSE <<>>}]
    IN  Then(RangeOver(DOMAIN sourceMap, removed),
             Then(RangeOver(DOMAIN targetMap, added),
                  RangeOver(DOMAIN sourceMap, both)))

\* SchemaComparator.compareForeignKeys
compareForeignKeys(tableName, src, tgt) ==
    LET sourceMap == foreignKeysToMap(src)
        targetMap == foreignKeysToMap(tgt)
        removed == [name \in DOMAIN sourceMap |->
            {IF name \notin DOMAIN targetMap
             THEN <<Difference(DiffRemoved, DiffCategoryForeignKey,
                      tableName \o "." \o name, "", "", "",
                      "Foreign key [" \o name \o "] missing in target",
                      ForeignKeyGenerateSQL(sourceMap[name]) \o ";")>>
             ELSE <<>>}]
        added == [name \in DOMAIN targetMap |->
            {IF name \notin DOMAIN sourceMap
             THEN <<Difference(DiffAdded, DiffCategoryForeignKey,
                      tableName \o "." \o name, "", "", "",
                      "Foreign key [" \o name \o "] exists only in target",
                      "ALTER TABLE " \o tableName \o " DROP CONSTRAINT [" \o
                      name \o "];")>>
             ELSE <<>>}]
    IN  Then(RangeOver(DOMAIN sourceMap, removed),
             RangeOver(DOMAIN targetMap, added))

\* compareCheckConstraints without its second loop (constraints only in target)
compareCheckConstraints_noAdded(tableName, src, tgt) ==
    LET sourceMap == checkConstraintsToMap(src)
        targetMap == checkConstraintsToMap(tgt)
        removed == [name \in DOMAIN sourceMap |->
            {IF name \notin DOMAIN targetMap
             THEN <<Difference(DiffRemoved, DiffCategoryConstraint,
                      tableName \o "." \o name, "", "", "",
                      "Check constraint [" \o name \o "] missing in target",
                      CheckConstraintGenerateSQL(sourceMap[name]) \o ";")>>
             ELSE <<>>}]
    IN  RangeOver(DOMAIN sourceMap, removed)

\* SchemaComparator.compareCheckConstraints
compareCheckConstraints(tableName, src, tgt) ==
    LET sourceMap == checkConstraintsToMap(src)
        targetMap == checkConstraintsToMap(tgt)
        removed == [name \in DOMAIN sourceMap |->
            {IF name \notin DOMAIN targetMap
             THEN <<Difference(DiffRemoved, DiffCategoryConstraint,
                      tableName \o "." \o name, "", "", "",
                      "Check constraint [" \o name \o "] missing in target",
                      CheckConstraintGenerateSQL(sourceMap[name]) \o ";")>>
             ELSE <<>>}]
        added == [name \in DOMAIN targetMap |->
            {IF name \notin DOMAIN sourceMap
             THEN <<Difference(DiffAdded, DiffCategoryConstraint,
                      tableName \o "." \o name, "", "", "",
                      "Check constraint [" \o name \o "] exists only in target",
                      "ALTER TABLE " \o tableName \o " DROP CONSTRAINT [" \o
                      name \o "];")>>
             ELSE <<>>}]
    IN  Then(RangeOver(DOMAIN sourceMap, removed),
             RangeOver(DOMAIN targetMap, added))

\* A *domain.Index is the empty tuple when nil and <<index>> otherwise.
Nil == <<>>

\* SchemaComparator.comparePrimaryKeys: the records it appends
comparePrimaryKeys(tableName, src, tgt) ==
    IF src = Nil /\ tgt = Nil THEN <<>>
    ELSE IF src = Nil /\ tgt # Nil
    THEN <<Difference(DiffAdded, DiffCategoryConstraint, tableName \o ".PK",
             "", "", "", "Primary key exists only in target", "")>>
    ELSE IF src # Nil /\ tgt = Nil
    THEN <<Difference(DiffRemoved, DiffCategoryConstraint, tableName \o ".PK",
             "", "", "", "Primary key missing in target", "")>>
    ELSE LET srcCols == indexColumnsToString(src[1].Columns)
             tgtCols == indexColumnsToString(tgt[1].Columns)
         IN  IF srcCols # tgtCols
             THEN <<Difference(DiffModified, DiffCategoryConstraint,
                      tableName \o "." \o src[1].Name, "Columns", srcCols, tgtCols,
                      "Primary key columns differ: [" \o srcCols \o "] vs [" \o
                      tgtCols \o "]", "")>>
             ELSE <<>>

\* compareTableStructure comparing the check constraints whatever
\* IncludeConstraints says
compareTableStructure_checksUngated(opts, src, tgt) ==
    LET tableName == formatTableName(src) IN
    Then(compareColumns(opts, tableName, src.Columns, tgt.Columns),
    Then(IF opts.IncludeIndexes
         THEN compareIndexes(tableName, src.Indexes, tgt.Indexes) ELSE {<<>>},
    Then(IF opts.IncludeForeignKeys
         THEN compareForeignKeys(tableName, src.ForeignKeys, tgt.ForeignKeys)
         ELSE {<<>>},
    Then(compareCheckConstraints(tableName, src.CheckConstraints,
                                 tgt.CheckConstraints),
         {comparePrimaryKeys(tableName, src.PrimaryKey, tgt.PrimaryKey)}))))

\* SchemaComparator.compareTableStructure
compareTableStructure(opts, src, tgt) ==
    LET tableName == formatTableName(src) IN
    Then(compareColumns(opts, tableName, src.Columns, tgt.Columns),
    Then(IF opts.IncludeIndexes
         THEN compareIndexes(tableName, src.Indexes, tgt.Indexes) ELSE {<<>>},
    Then(IF opts.IncludeForeignKeys
         THEN compareForeignKeys(tableName, src.ForeignKeys, tgt.ForeignKeys)
         ELSE {<<>>},
    Then(IF opts.IncludeConstraints
         THEN compareCheckConstraints(tableName, src.CheckConstraints,
                                      tgt.CheckConstraints)
         ELSE {<<>>},
         {comparePrimaryKeys(tableName, src.PrimaryKey, tgt.PrimaryKey)}))))

\* SchemaComparator.compareTables
compareTables(opts, src, tgt) ==
    LET sourceMap == tablesToMap(src)
        targetMap == tablesToMap(tgt)
        removed == [name \in DOMAIN sourceMap |->
            {IF name \notin DOMAIN targetMap
             THEN <<Difference(DiffRemoved, DiffCategoryTable, name, "", "", "",
                      "Table [" \o name \o "] exists in source but not in target",
                      "CREATE TABLE " \o name \o
                      " (\n    -- Copy structure from source\n)")>>
             ELSE <<>>}]
        added == [name \in DOMAIN targetMap |->
            {IF name \notin DOMAIN sourceMap
             THEN <<Difference(DiffAdded, DiffCategoryTable, name, "", "", "",
                      "Table [" \o name \o "] exists in target but not in source",
                      "DROP TABLE " \o formatTableName(targetMap[name]) \o ";")>>
             ELSE <<>>}]
        both == [name \in DOMAIN sourceMap |->
            IF name \in DOMAIN targetMap
            THEN compareTableStructure(opts, sourceMap[name], targetMap[name])
            ELSE {<<>>}]
    IN  Then(RangeOver(DOMAIN sourceMap, removed),
             Then(RangeOver(DOMAIN targetMap, added),
                  RangeOver(DOMAIN sourceMap, both)))

\* compareModules with the Removed wording pasted into the Added record
compareModules_pastedWording(opts, sourceMap, targetMap, category, word) ==
    LET removed == [name \in DOMAIN sourceMap |->
            {IF name \notin DOMAIN targetMap
             THEN <<Difference(DiffRemoved, category, name, "", "", "",
                      word \o " [" \o name \o "] missing in target", "")>>
             ELSE <<>>}]
        added == [name \in DOMAIN targetMap |->
            {IF name \notin DOMAIN sourceMap
             THEN <<Difference(DiffAdded, category, name, "", "", "",
                      word \o " [" \o name \o "] missing in target", "")>>
             ELSE <<>>}]
        both == [name \in DOMAIN sourceMap |->
            {IF name \in DOMAIN targetMap
                /\ ~definitionsEqual(opts, sourceMap[name].Definition,
                                     targetMap[name].Definition)
             THEN <<Difference(DiffModified, category, name, "", "", "",
                      word \o " definition differs", "")>>
             ELSE <<>>}]
    IN  Then(RangeOver(DOMAIN sourceMap, removed),
             Then(RangeOver(DOMAIN targetMap, added),
                  RangeOver(DOMAIN sourceMap, both)))

\* compareViews, compareProcedures, compareFunctions and compareTriggers are
\* the same three loops over their own map, category and wording.
compareModules(opts, sourceMap, targetMap, category, word) ==
    LET removed == [name \in DOMAIN sourceMap |->
            {IF name \notin DOMAIN targetMap
             THEN <<Difference(DiffRemoved, category, name, "", "", "",
                      word \o " [" \o name \o "] missing in target", "")>>
             ELSE <<>>}]
        added == [name \in DOMAIN targetMap |->
            {IF name \notin DOMAIN sourceMap
             THEN <<Difference(DiffAdded, category, name, "", "", "",
                      word \o " [" \o name \o "] exists only in target", "")>>
             ELSE <<>>}]
        both == [name \in DOMAIN sourceMap |->
            {IF name \in DOMAIN targetMap
                /\ ~definitionsEqual(opts, sourceMap[name].Definition,
                                     targetMap[name].Definition)
             THEN <<Difference(DiffModified, category, name, "", "", "",
                      word \o " definition differs", "")>>
             ELSE <<>>}]
    IN  Then(RangeOver(DOMAIN sourceMap, removed),
             Then(RangeOver(DOMAIN targetMap, added),
                  RangeOver(DOMAIN sourceMap, both)))

\* SchemaComparator.compareViews
compareViews(opts, src, tgt) ==
    compareModules(opts, viewsToMap(src), viewsToMap(tgt), DiffCategoryView, "View")

\* SchemaComparator.compareProcedures
compareProcedures(opts, src, tgt) ==
    compareModules(opts, proceduresToMap(src), proceduresToMap(tgt),
                   DiffCategoryProcedure, "Procedure")

\* SchemaComparator.compareFunctions
compareFunctions(opts, src, tgt) ==
    compareModules(opts, functionsToMap(src), functionsToMap(tgt),
                   DiffCategoryFunction, "Function")

\* SchemaComparator.compareTriggers
compareTriggers(opts, src, tgt) ==
    compareModules(opts, triggersToMap(src), triggersToMap(tgt),
                   DiffCategoryTrigger, "Trigger")

(***************************************************************************)
(* domain: DiffResult (connection.go 169-299)                              *)
(***************************************************************************)
\* DiffSummary{ByCategory: make(map[DiffCategory]int)}
ZeroSummary ==
    [TotalDifferences |-> 0, Added |-> 0, Removed |-> 0, Modified |-> 0,
     ByCategory |-> <<>>]

\* a pass of the loop of CalculateSummary whose switch has no DiffModified case
CountDifference_noModifiedCase(s, d) ==
    [TotalDifferences |-> s.TotalDifferences + 1,
     Added    |-> s.Added + (IF d.Type = DiffAdded THEN 1 ELSE 0),
     Removed  |-> s.Removed + (IF d.Type = DiffRemoved THEN 1 ELSE 0),
     Modified |-> s.Modified,
     ByCategory |->
        [c \in DOMAIN s.ByCategory \cup {d.Category} |->
            IF c = d.Category
            THEN (IF c \in DOMAIN s.ByCategory THEN s.ByCategory[c] ELSE 0) + 1
            ELSE s.ByCategory[c]]]

\* one pass of the loop of CalculateSummary over difference d
CountDifference(s, d) ==
    [TotalDifferences |-> s.TotalDifferences + 1,
     Added    |-> s.Added + (IF d.Type = DiffAdded THEN 1 ELSE 0),
     Removed  |-> s.Removed + (IF d.Type = DiffRemoved THEN 1 ELSE 0),
     Modified |-> s.Modified + (IF d.Type = DiffModified THEN 1 ELSE 0),
     ByCategory |->
        [c \in DOMAIN s.ByCategory \cup {d.Category} |->
            IF c = d.Category
            THEN (IF c \in DOMAIN s.ByCategory THEN s.ByCategory[c] ELSE 0) + 1
            ELSE s.ByCategory[c]]]

\* DiffResult.CalculateSummary: the summary of a difference list
RECURSIVE SummaryFrom(_, _)
SummaryFrom(s, diffs) ==
    IF Len(diffs) = 0 THEN s
    ELSE SummaryFrom(CountDifference(s, diffs[1]), Tail(diffs))

CalculateSummary(diffs) == SummaryFrom(ZeroSummary, diffs)

\* DiffResult.HasDifferences
HasDifferences(r) == Len(r.Differences) > 0

\* DiffResult.FilterByCategory
RECURSIVE FilterByCategory(_, _)
FilterByCategory(diffs, category) ==
    IF Len(diffs) = 0 THEN <<>>
    ELSE (IF diffs[1].Category = category THEN <<diffs[1]>> ELSE <<>>)
         \o FilterByCategory(Tail(diffs), category)

\* Difference.String; the escape character of the colour codes is written \033
DifferenceString(d) ==
    LET prefix ==
            CASE d.Type = DiffAdded    -> "\\033[32m+\\033[0m"
              [] d.Type = DiffRemoved  -> "\\033[31m-\\033[0m"
              [] d.Type = DiffModified -> "\\033[33m~\\033[0m"
              [] OTHER                 -> ""
    IN  prefix \o " [" \o d.Category \o "] " \o d.ObjectName \o ": " \o d.Description

SectionHeader(category) == "@@ " \o category \o " @@"

\* the loop of PrintGitStyle: the lines written for diffs, the last section
\* header written being the one of category current
RECURSIVE GitStyleLines(_, _)
GitStyleLines(diffs, current) ==
    IF Len(diffs) = 0 THEN <<>>
    ELSE (IF diffs[1].Category # current
          THEN <<"", SectionHeader(diffs[1].Category)>> ELSE <<>>)
         \o <<DifferenceString(diffs[1])>>
         \o GitStyleLines(Tail(diffs), diffs[1].Category)

\* DiffResult.PrintGitStyle: the lines of the text it returns
PrintGitStyle(r) ==
    <<"diff --sqlpulse a/" \o r.SourceDatabase \o " b/" \o r.TargetDatabase,
      "--- a/" \o r.SourceDatabase,
      "+++ b/" \o r.TargetDatabase,
      "">>
    \o GitStyleLines(r.Differences, "")

\* the categories in the order GenerateMigrationScript lists them
categories ==
    <<DiffCategorySchema, DiffCategoryTable, DiffCategoryColumn,
      DiffCategoryIndex, DiffCategoryForeignKey, DiffCategoryConstraint,
      DiffCategoryView, DiffCategoryProcedure, DiffCategoryFunction,
      DiffCategoryTrigger>>

\* strings.Repeat of a one-character string
RECURSIVE Repeat(_, _)
Repeat(s, n) == IF n = 0 THEN "" ELSE s \o Repeat(s, n - 1)

\* the inner loop of GenerateMigrationScript without its test of MigrationSQL
RECURSIVE FragmentLines_noSkip(_)
FragmentLines_noSkip(diffs) ==
    IF Len(diffs) = 0 THEN <<>>
    ELSE <<"-- " \o diffs[1].Description, diffs[1].MigrationSQL, "GO", "">>
         \o FragmentLines_noSkip(Tail(diffs))

\* the inner loop of GenerateMigrationScript: the lines written for the
\* differences of one category; a fragment is one element, whatever line
\* breaks it holds
RECURSIVE FragmentLines(_)
FragmentLines(diffs) ==
    IF Len(diffs) = 0 THEN <<>>
    ELSE (IF diffs[1].MigrationSQL # ""
          THEN <<"-- " \o diffs[1].Description, diffs[1].MigrationSQL, "GO", "">>
          ELSE <<>>)
         \o FragmentLines(Tail(diffs))

\* the outer loop with a heading only above a category that has a fragment
RECURSIVE CategoryLines_fragmentsOnly(_, _)
CategoryLines_fragmentsOnly(r, n) ==
    IF n > Len(categories) THEN <<>>
    ELSE LET diffs == FilterByCategory(r.Differences, categories[n])
         IN  (IF FragmentLines(diffs) = <<>> THEN <<>>
              ELSE <<"-- " \o categories[n] \o " Changes",
                     "-- " \o Repeat("-", 40), "">>
                   \o FragmentLines(diffs))
             \o CategoryLines_fragmentsOnly(r, n + 1)

\* the outer loop of GenerateMigrationScript from category number n on
RECURSIVE CategoryLines(_, _)
CategoryLines(r, n) ==
    IF n > Len(categories) THEN <<>>
    ELSE LET diffs == FilterByCategory(r.Differences, categories[n])
         IN  (IF Len(diffs) = 0 THEN <<>>
              ELSE <<"-- " \o categories[n] \o " Changes",
                     "-- " \o Repeat("-", 40), "">>
                   \o FragmentLines(diffs))
             \o CategoryLines(r, n + 1)

\* DiffResult.GenerateMigrationScript: the lines of the text it returns
GenerateMigrationScript(r) ==
    <<"-- ============================================",
      "-- Migration Script",
      "-- From: " \o r.SourceDatabase,
      "-- To:   " \o r.TargetDatabase,
      "-- ============================================",
      "">>
    \o CategoryLines(r, 1)

\* SchemaComparator.Compare: the results it can return
Compare(opts, src, tgt) ==
    LET lists ==
        Then(IF opts.IncludeTables
             THEN compareTables(opts, src.Tables, tgt.Tables) ELSE {<<>>},
        Then(IF opts.IncludeViews
             THEN compareViews(opts, src.Views, tgt.Views) ELSE {<<>>},
        Then(IF opts.IncludeProcedures
             THEN compareProcedures(opts, src.StoredProcedures,
                                    tgt.StoredProcedures)
             ELSE {<<>>},
        Then(IF opts.IncludeFunctions
             THEN compareFunctions(opts, src.Functions, tgt.Functions)
             ELSE {<<>>},
             IF opts.IncludeTriggers
             THEN compareTriggers(opts, src.Triggers, tgt.Triggers)
             ELSE {<<>>}))))
    IN  {[SourceDatabase |-> src.DatabaseName,
          TargetDatabase |-> tgt.DatabaseName,
          Differences    |-> diffs,
          Summary        |-> CalculateSummary(diffs)] : diffs \in lists}

\* a DiffResult no Compare has filled yet
NoResult ==
    [SourceDatabase |-> "", TargetDatabase |-> "", Differences |-> <<>>,
     Summary |-> ZeroSummary]

(***************************************************************************)
(* The schemas the model compares.  Each is what ExtractSchema returns for *)
(* some database: lists in the ORDER BY order of the extraction queries,   *)
(* names unique within their list.                                         *)
(***************************************************************************)
MaxObjects == 3     \* objects of a schema in the objects family
MaxDefLen  == 4     \* characters of a definition in the definitions family

TableNames == {"Orders", "Users"}

MkColumn(name, ordinal, dataType, maxLength, precision, scale, nullable, identity, collation) ==
    [Name |-> name, OrdinalPosition |-> ordinal, DataType |-> dataType,
     MaxLength |-> maxLength, Precision |-> precision, Scale |-> scale,
     IsNullable |-> nullable, HasDefault |-> FALSE, DefaultValue |-> "",
     IsIdentity |-> identity, IdentitySeed |-> 1, IdentityIncrement |-> 1,
     IsComputed |-> FALSE, ComputedDefinition |-> "", Collation |-> collation]

\* Every object below is built in two states: as declared, and drifted (the
\* same object, same name, after somebody altered it on one side).
IdColumn == MkColumn("Id", 1, "int", 4, 10, 0, FALSE, TRUE, "")
EmailColumn(drift) ==
    MkColumn("Email", 2, "varchar", IF drift THEN 255 ELSE 100, 0, 0, drift,
             FALSE, "SQL_Latin1_General_CP1_CI_AS")

MkIndexColumn(name, position, descending, included) ==
    [Name |-> name, Position |-> position, IsDescending |-> descending,
     IsIncluded |-> included]

MkIndex(t, drift) ==
    [Name |-> "IX_" \o t \o "_Id", SchemaName |-> "dbo", TableName |-> t,
     IsPrimaryKey |-> FALSE, IsUnique |-> ~drift, IsClustered |-> FALSE,
     IsDisabled |-> FALSE, FilterDefinition |-> "",
     Columns |-> <<MkIndexColumn("Id", 1, TRUE, FALSE)>>]

MkPrimaryKey(t, drift) ==
    [Name |-> "PK_" \o t, SchemaName |-> "dbo", TableName |-> t,
     IsPrimaryKey |-> TRUE, IsUnique |-> TRUE, IsClustered |-> TRUE,
     IsDisabled |-> FALSE, FilterDefinition |-> "",
     Columns |-> <<MkIndexColumn("Id", 1, drift, FALSE)>>]

MkForeignKey(t, drift) ==
    [Name |-> "FK_" \o t \o "_Users", SchemaName |-> "dbo", TableName |-> t,
     ReferencedSchemaName |-> "dbo",
     ReferencedTableName |-> IF drift THEN "Orders" ELSE "Users",
     DeleteAction |-> "SET_NULL", UpdateAction |-> "NO_ACTION",
     Columns |-> <<[ColumnName |-> "Id", ReferencedColumnName |-> "Id"]>>]

MkCheckConstraint(t, drift) ==
    [Name |-> "CK_" \o t \o "_Id", SchemaName |-> "dbo", TableName |-> t,
     Definition |-> IF drift THEN "([Id]>=(0))" ELSE "([Id]>(0))",
     IsDisabled |-> FALSE]

\* An object of the objects family: <<kind, table>>; the kinds below "table"
\* are nested in their table, the module kinds carry no table.
NestedKinds == {"column", "index", "fk", "check", "pk"}
ModuleKinds == {"view", "procedure", "function", "trigger"}

\* a shape is closed when every nested object comes with its table
Closed(shape) ==
    \A o \in shape : o[1] \in NestedKinds => <<"table", o[2]>> \in shape

\* the names of a set of strings in ascending order (the ORDER BY of the
\* extraction queries); the model's table names are listed here in order
TableOrder == <<"Orders", "Users">>

RECURSIVE SelectSeq2(_, _)
SelectSeq2(names, S) ==
    IF Len(names) = 0 THEN <<>>
    ELSE (IF names[1] \in S THEN <<names[1]>> ELSE <<>>) \o SelectSeq2(Tail(names), S)

MkTable(t, shape, drift) ==
    [SchemaName |-> "dbo", Name |-> t,
     Columns |-> <<IdColumn>> \o
        (IF <<"column", t>> \in shape THEN <<EmailColumn(drift)>> ELSE <<>>),
     PrimaryKey |->
        IF <<"pk", t>> \in shape THEN <<MkPrimaryKey(t, drift)>> ELSE Nil,
     Indexes |->
        IF <<"index", t>> \in shape THEN <<MkIndex(t, drift)>> ELSE <<>>,
     ForeignKeys |->
        IF <<"fk", t>> \in shape THEN <<MkForeignKey(t, drift)>> ELSE <<>>,
     CheckConstraints |->
        IF <<"check", t>> \in shape THEN <<MkCheckConstraint(t, drift)>>
        ELSE <<>>]

MkModule(name, definition) ==
    [SchemaName |-> "dbo", Name |-> name, Definition |-> definition]

MkFunction(name, definition) ==
    [SchemaName |-> "dbo", Name |-> name, Definition |-> definition,
     FuncType |-> "SCALAR"]

MkTrigger(name, definition) ==
    [SchemaName |-> "dbo", TableName |-> "Users", Name |-> name,
     Definition |-> definition, IsDisabled |-> FALSE]

\* the schema of a shape; def is the definition text of its modules
MkSchema(shape, def, drift) ==
    LET names == SelectSeq2(TableOrder, {t \in TableNames : <<"table", t>> \in shape})
    IN  [DatabaseName |-> "Sales",
         Schemas |-> <<[Name |-> "dbo", Owner |-> "dbo"]>>,
         Tables |-> [n \in DOMAIN names |-> MkTable(names[n], shape, drift)],
         Views |-> IF <<"view", "">> \in shape
                   THEN <<MkModule("ActiveUsers", def)>> ELSE <<>>,
         StoredProcedures |-> IF <<"procedure", "">> \in shape
                   THEN <<MkModule("GetUser", def)>> ELSE <<>>,
         Functions |-> IF <<"function", "">> \in shape
                   THEN <<MkFunction("fnTotal", def)>> ELSE <<>>,
         Triggers |-> IF <<"trigger", "">> \in shape
                   THEN <<MkTrigger("trAudit", def)>> ELSE <<>>]

BaseDefinition == <<"a", " ", " ", "b">>
DriftedDefinition == <<"a", " ", "b", "b">>

\* Objects family: two tables with their nested objects and a view, at most
\* MaxObjects objects on a side; the target holds its objects either as the
\* source declares them or drifted.
ObjectUniverse ==
    (({"table"} \cup NestedKinds) \X TableNames) \cup {<<"view", "">>}

ObjectShapes ==
    {s \in SUBSET ObjectUniverse : Cardinality(s) <= MaxObjects /\ Closed(s)}

\* Options family: a schema with one object of every kind, and the schemas
\* that lack exactly one of its objects, under every DiffOptions value.
FullShape ==
    (({"table"} \cup NestedKinds) \X {"Users"}) \cup (ModuleKinds \X {""})

Without(shape, o) ==
    IF o[1] = "table" THEN {x \in shape : x[2] # o[2]} ELSE shape \ {o}

NearFullShapes == {FullShape} \cup {Without(FullShape, o) : o \in FullShape}

AllDiffOptions ==
    [IncludeTables : BOOLEAN, IncludeViews : BOOLEAN, IncludeProcedures : BOOLEAN,
     IncludeFunctions : BOOLEAN, IncludeTriggers : BOOLEAN,
     IncludeIndexes : BOOLEAN, IncludeForeignKeys : BOOLEAN,
     IncludeConstraints : BOOLEAN, IgnoreCollation : BOOLEAN,
     IgnoreWhitespace : BOOLEAN]

(***************************************************************************)
(* cli: the diff command (diff.go)                                         *)
(***************************************************************************)
\* the defaults of --format, --generate-migration and --migration-file
DefaultFlags ==
    [outputFormat |-> "git", generateMigration |-> FALSE, migrationFile |-> ""]

\* --format takes any text; "json" stands for the values the switch of
\* runDiff does not name
OutputFormats == {"git", "summary", "full", "json"}

AllFlags ==
    [outputFormat : OutputFormats, generateMigration : BOOLEAN,
     migrationFile : {"", "migration.sql"}]

\* domain.NewConnectionConfig
NewConnectionConfig ==
    [Server |-> "", Port |-> 1433, Database |-> "", User |-> "", Password |-> "",
     TrustedAuth |-> FALSE, Encrypt |-> TRUE, TrustServer |-> FALSE,
     AppName |-> "SQLPulse"]

\* ConnectionConfig.Validate: its error text, "" for nil
Validate(c) ==
    IF c.Server = "" THEN "server is required"
    ELSE IF c.Database = "" THEN "database is required"
    ELSE IF ~c.TrustedAuth /\ c.User = ""
    THEN "user is required for SQL authentication"
    ELSE IF ~c.TrustedAuth /\ c.Password = ""
    THEN "password is required for SQL authentication"
    ELSE IF c.Port <= 0 \/ c.Port > 65535
    THEN "port must be between 1 and 65535"
    ELSE ""

\* SafeString printing the password it was given
SafeString_unmasked(c) ==
    IF c.TrustedAuth
    THEN "Server=" \o c.Server \o ":" \o FmtInt(c.Port) \o "; Database=" \o
         c.Database \o "; TrustedAuth=true"
    ELSE "Server=" \o c.Server \o ":" \o FmtInt(c.Port) \o "; Database=" \o
         c.Database \o "; User=" \o c.User \o "; Password=" \o c.Password

\* ConnectionConfig.SafeString
SafeString(c) ==
    IF c.TrustedAuth
    THEN "Server=" \o c.Server \o ":" \o FmtInt(c.Port) \o "; Database=" \o
         c.Database \o "; TrustedAuth=true"
    ELSE "Server=" \o c.Server \o ":" \o FmtInt(c.Port) \o "; Database=" \o
         c.Database \o "; User=" \o c.User \o "; Password=***"

\* the defaults of the --target-* flags
DefaultTargetFlags ==
    [targetServer |-> "", targetDatabase |-> "", targetUser |-> "",
     targetPassword |-> "", targetTrusted |-> FALSE, targetPort |-> 0]

\* runDiff 103-127: the target configuration built from the --target-*
\* flags tf, inheriting from the source configuration src
DeriveTargetConfig(src, tf) ==
    [NewConnectionConfig EXCEPT
        !.Server = IF tf.targetServer = "" THEN src.Server ELSE tf.targetServer,
        !.Database = tf.targetDatabase,
        !.User = IF tf.targetUser = "" THEN src.User ELSE tf.targetUser,
        !.Password =
            IF tf.targetPassword = "" THEN src.Password ELSE tf.targetPassword,
        !.TrustedAuth =
            IF ~tf.targetTrusted /\ ~src.TrustedAuth /\ tf.targetUser = ""
            THEN src.TrustedAuth ELSE tf.targetTrusted,
        !.Port = IF tf.targetPort = 0 THEN src.Port ELSE tf.targetPort,
        !.TrustServer = src.TrustServer]

\* the value of `returned` while runDiff runs, and its nil error
Running == "running"
NilError == "nil"

\* one write: the stream it went to and its lines
Emit(stream, lines) == [stream |-> stream, lines |-> lines]

\* fmt verb %-15s
PadRight(text, width) ==
    IF Len(text) >= width THEN text ELSE text \o Repeat(" ", width - Len(text))

\* printDiffSummary: the lines it prints; the rule character is written -,
\* the arrow -> and the escape character \033.  The categories are printed
\* in the order of a range over the ByCategory map.
printDiffSummary(r) ==
    LET rule == Repeat("-", 50)
        byCategory == [c \in DOMAIN r.Summary.ByCategory |->
            {<<"    " \o PadRight(c \o ":", 15) \o " " \o
               FmtInt(r.Summary.ByCategory[c])>>}]
    IN  Then({<<rule,
                "\\033[1mDiff Summary: " \o r.SourceDatabase \o " -> " \o
                    r.TargetDatabase \o "\\033[0m",
                rule,
                "  Total differences: " \o FmtInt(r.Summary.TotalDifferences),
                "  \\033[32m+ Added:   " \o FmtInt(r.Summary.Added) \o
                    "\\033[0m (in target only)",
                "  \\033[31m- Removed: " \o FmtInt(r.Summary.Removed) \o
                    "\\033[0m (in source only)",
                "  \\033[33m~ Modified: " \o FmtInt(r.Summary.Modified) \o
                    "\\033[0m">>},
        Then(IF DOMAIN r.Summary.ByCategory # {}
             THEN Then({<<"", "  By category:">>},
                       RangeOver(DOMAIN r.Summary.ByCategory, byCategory))
             ELSE {<<>>},
             {<<rule>>}))

\* the switch on outputFormat without its default case
ReportWrites_noDefault(format, r) ==
    CASE format = "summary" ->
            {<<Emit("stdout", lines)>> : lines \in printDiffSummary(r)}
      [] format = "full" ->
            {<<Emit("stdout", PrintGitStyle(r)), Emit("stdout", <<"">>),
               Emit("stdout", lines)>> : lines \in printDiffSummary(r)}
      [] format = "git" -> {<<Emit("stdout", PrintGitStyle(r))>>}
      [] OTHER -> {<<>>}

\* the switch on outputFormat of runDiff: the writes to stdout it makes
ReportWrites(format, r) ==
    CASE format = "summary" ->
            {<<Emit("stdout", lines)>> : lines \in printDiffSummary(r)}
      [] format = "full" ->
            {<<Emit("stdout", PrintGitStyle(r)), Emit("stdout", <<"">>),
               Emit("stdout", lines)>> : lines \in printDiffSummary(r)}
      [] OTHER -> {<<Emit("stdout", PrintGitStyle(r))>>}

(***************************************************************************)
(* security: the approvers (approval.go); sqlserver: the Adapter           *)
(* (part_003 14-141).  A response is a sequence of characters; stdin is a  *)
(* sequence of entries, each a text and whether a newline ends it.         *)
(***************************************************************************)
ReadOnly == 0
Modification == 1
Destructive == 2

Approvers == {"InteractiveApprover", "AutoApprover(true)", "AutoApprover(false)", "DryRunApprover"}

\* strings.ToLower over the letters the responses are written in
ToLower(chars) ==
    LET upper == <<"Y", "E", "S", "N", "O", "C", "F", "I", "R", "M">>
        lower == <<"y", "e", "s", "n", "o", "c", "f", "i", "r", "m">>
    IN  [k \in DOMAIN chars |->
            IF \E u \in DOMAIN upper : upper[u] = chars[k]
            THEN lower[CHOOSE u \in DOMAIN upper : upper[u] = chars[k]]
            ELSE chars[k]]

\* bufio.Reader.ReadString('\n'): the text up to and including the newline,
\* or an error at the end of the input
ReadString(in) ==
    IF in = <<>> THEN [ok |-> FALSE, line |-> <<>>, rest |-> <<>>]
    ELSE IF Head(in).terminated
    THEN [ok |-> TRUE, line |-> Head(in).text \o <<"\n">>, rest |-> Tail(in)]
    ELSE [ok |-> FALSE, line |-> Head(in).text, rest |-> Tail(in)]

\* what RequestApproval returns, the input it leaves and what it did
Approval(approved, err, in, trace) ==
    [approved |-> approved, err |-> err, stdin |-> in, trace |-> trace]

\* requestSimpleConfirmation accepting any response that starts with y
requestSimpleConfirmation_anyY(in) ==
    LET read == ReadString(in)
        response == TrimSpace(ToLower(read.line))
    IN  IF ~read.ok
        THEN Approval(FALSE, "failed to read response", read.rest,
                      <<"display", "read">>)
        ELSE Approval(response # <<>> /\ response[1] = "y", "", read.rest,
                      <<"display", "read">>)

\* InteractiveApprover.requestSimpleConfirmation
requestSimpleConfirmation(in) ==
    LET read == ReadString(in)
        response == TrimSpace(ToLower(read.line))
    IN  IF ~read.ok
        THEN Approval(FALSE, "failed to read response", read.rest,
                      <<"display", "read">>)
        ELSE Approval(response \in {<<"y">>, <<"y", "e", "s">>}, "", read.rest,
                      <<"display", "read">>)

\* InteractiveApprover.requestStrictConfirmation
requestStrictConfirmation(in) ==
    LET read == ReadString(in)
        response == TrimSpace(read.line)
    IN  IF ~read.ok
        THEN Approval(FALSE, "failed to read response", read.rest,
                      <<"display", "read">>)
        ELSE Approval(response = <<"C", "O", "N", "F", "I", "R", "M">>, "",
                      read.rest, <<"display", "read">>)

\* Approver.RequestApproval of the three approvers
RequestApproval(by, level, in) ==
    CASE by = "AutoApprover(true)" -> Approval(TRUE, "", in, <<>>)
      [] by = "AutoApprover(false)" -> Approval(FALSE, "", in, <<>>)
      [] by = "DryRunApprover" -> Approval(FALSE, "", in, <<"display">>)
      [] OTHER ->
            CASE level = ReadOnly -> Approval(TRUE, "", in, <<>>)
              [] level = Modification -> requestSimpleConfirmation(in)
              [] level = Destructive -> requestStrictConfirmation(in)
              [] OTHER -> Approval(FALSE, "unknown approval level: " \o
                                   FmtInt(level), in, <<>>)

\* the line a request read from `in`, empty when it read nothing
LineRead(asked, in) ==
    IF \E n \in DOMAIN asked.trace : asked.trace[n] = "read"
    THEN ReadString(in).line ELSE <<>>

\* the outcome of a call: the operation, its level and SQL text when it
\* has them, the error it returned ("" for nil), whether the approver
\* approved, the line it read and what happened, in order
Outcome(op, level, sql, err, approved, line, trace) ==
    [op |-> op, level |-> level, sql |-> sql, err |-> err,
     approved |-> approved, line |-> line, trace |-> trace]

NoOutcome == Outcome("", ReadOnly, "", "", FALSE, <<>>, <<>>)

AdapterIdle ==
    /\ config = NewConnectionConfig
    /\ db = "nil"
    /\ approver = "InteractiveApprover"
    /\ dryRun = FALSE
    /\ stdin = <<>>
    /\ executed = <<>>
    /\ outcome = NoOutcome

(***************************************************************************)
(* The run: Compare(source, target), Compare(target, source), and the      *)
(* report of the first result.                                             *)
(***************************************************************************)
RunIdle ==
    /\ pc = "ready"
    /\ result = NoResult
    /\ reverse = NoResult
    /\ report = <<>>
    /\ script = <<>>
    /\ flags = DefaultFlags
    /\ output = <<>>
    /\ returned = Running
    /\ sourceConfig = NewConnectionConfig
    /\ targetFlags = DefaultTargetFlags
    /\ targetConfig = NewConnectionConfig
    /\ calls = <<>>

InitRun == RunIdle /\ AdapterIdle

InitObjects ==
    /\ \E s \in ObjectShapes, t \in ObjectShapes, drift \in BOOLEAN :
          /\ source = MkSchema(s, BaseDefinition, FALSE)
          /\ target = MkSchema(t, IF drift THEN DriftedDefinition
                                  ELSE BaseDefinition, drift)
    /\ options = DefaultDiffOptions
    /\ InitRun

InitOptions ==
    /\ \E s \in NearFullShapes, t \in NearFullShapes :
          /\ FullShape \in {s, t}
          /\ source = MkSchema(s, BaseDefinition, FALSE)
          /\ target = MkSchema(t, BaseDefinition, FALSE)
    /\ options \in AllDiffOptions
    /\ InitRun

Init == InitObjects \/ InitOptions

\* Columns family: table dbo.Users on both sides, its column Email drawn on
\* each side from every combination of the compared properties.
ColumnVariants ==
    {MkColumn("Email", 2, dataType, maxLength, precision, scale, nullable,
              identity, collation) :
        dataType \in {"varchar", "nvarchar"}, maxLength \in {100, 255},
        precision \in {0, 10}, scale \in {0, 2}, nullable \in BOOLEAN,
        identity \in BOOLEAN,
        collation \in {"SQL_Latin1_General_CP1_CI_AS", "Latin1_General_BIN2"}}

MkColumnSchema(column) ==
    [MkSchema({<<"table", "Users">>}, BaseDefinition, FALSE) EXCEPT
        !.Tables[1].Columns = <<IdColumn, column>>]

InitColumns ==
    /\ \E s \in ColumnVariants, t \in ColumnVariants :
          /\ source = MkColumnSchema(s)
          /\ target = MkColumnSchema(t)
    /\ \E ignore \in BOOLEAN :
          options = [DefaultDiffOptions EXCEPT !.IgnoreCollation = ignore]
    /\ InitRun

\* Column-types family: the source table has a column the target lacks, of
\* every data type class Column.GenerateSQL tells apart, in lower, upper and
\* mixed case, with the lengths sys.columns reports (-1 for MAX, bytes
\* otherwise, odd values included) and a scale of zero or more.
ColumnTypeNames ==
    {"varchar", "VarChar", "VARCHAR", "nvarchar", "NVARCHAR", "char", "NChar",
     "varbinary", "Binary", "decimal", "Decimal", "numeric", "datetime2",
     "datetimeoffset", "time", "TIME", "int", "ntext", "float", "datetime"}

ColumnLengths == {-1, 0, 1, 7, 8, 100}

ColumnTypeVariants ==
    {MkColumn("Email", 2, dataType, maxLength, precision, scale, TRUE, FALSE, "") :
        dataType \in ColumnTypeNames, maxLength \in ColumnLengths,
        precision \in {0, 18}, scale \in {0, 3}}

InitColumnTypes ==
    /\ \E s \in ColumnTypeVariants :
          /\ source = MkColumnSchema(s)
          /\ target = [MkColumnSchema(s) EXCEPT !.Tables[1].Columns = <<IdColumn>>]
    /\ options = DefaultDiffOptions
    /\ InitRun

\* Definitions family: a view, a procedure, a function and a trigger on both
\* sides, the definition text of the target drawn from every string of at most
\* MaxDefLen characters and the one of the source from every string one
\* character shorter (the swapped call compares the longer text as source).
DefinitionChars == {"a", " ", "\t"}

Definitions(maxLen) == UNION {[1..n -> DefinitionChars] : n \in 0..maxLen}

InitDefinitions ==
    /\ \E s \in Definitions(MaxDefLen - 1), t \in Definitions(MaxDefLen) :
          /\ source = MkSchema(ModuleKinds \X {""}, s, FALSE)
          /\ target = MkSchema(ModuleKinds \X {""}, t, FALSE)
    /\ \E ignore \in BOOLEAN :
          options = [DefaultDiffOptions EXCEPT !.IgnoreWhitespace = ignore]
    /\ InitRun

\* Equality family: three definition texts a, b and c spread over the
\* modules of both sides so that one Compare decides a against b (view
\* ActiveUsers), a against a (view AllUsers), b against c (procedure
\* GetUser), a against c (function fnTotal) and a against the text
\* normalizeWhitespace makes of it (trigger trAudit).
EqualitySchema(activeUsers, allUsers, getUser, fnTotal, trAudit) ==
    [MkSchema(ModuleKinds \X {""}, <<>>, FALSE) EXCEPT
        !.Views = <<MkModule("ActiveUsers", activeUsers),
                    MkModule("AllUsers", allUsers)>>,
        !.StoredProcedures = <<MkModule("GetUser", getUser)>>,
        !.Functions = <<MkFunction("fnTotal", fnTotal)>>,
        !.Triggers = <<MkTrigger("trAudit", trAudit)>>]

InitEquality ==
    /\ \E a \in Definitions(MaxDefLen - 1), b \in Definitions(MaxDefLen - 3),
          c \in Definitions(MaxDefLen - 3) :
          /\ source = EqualitySchema(a, a, b, a, a)
          /\ target = EqualitySchema(b, a, c, c, normalizeWhitespace(a))
    /\ \E ignore \in BOOLEAN :
          options = [DefaultDiffOptions EXCEPT !.IgnoreWhitespace = ignore]
    /\ InitRun

\* a Compare that leaves the default options behind in its comparator
CompareStep_resetsOptions ==
    /\ pc = "ready"
    /\ result' \in Compare(options, source, target)
    /\ options' = DefaultDiffOptions
    /\ pc' = "compared"
    /\ UNCHANGED <<adapter, source, target, reverse, report, script, cli>>

\* Indexes family: table dbo.Users on both sides with index IX_Users_Id,
\* whose flags and column list are drawn on each side from every list
\* extractIndexColumns can return: one or two key columns in key order, each
\* ascending or descending, then the included columns (key_ordinal 0) in
\* any order.
IndexedColumnNames == {"Id", "Email", "Name"}

NameColumn == MkColumn("Name", 3, "nvarchar", 200, 0, 0, TRUE, FALSE, "")

\* the sequences that list every element of S once
Orderings(S) ==
    {f \in [1..Cardinality(S) -> S] : \A i, j \in DOMAIN f : f[i] = f[j] => i = j}

KeyColumnLists ==
    {<<MkIndexColumn(a, 1, da, FALSE)>> :
        a \in IndexedColumnNames, da \in BOOLEAN}
    \cup {<<MkIndexColumn(ab[1], 1, da, FALSE), MkIndexColumn(ab[2], 2, dz, FALSE)>> :
        ab \in {x \in IndexedColumnNames \X IndexedColumnNames : x[1] # x[2]},
        da \in BOOLEAN, dz \in BOOLEAN}

IncludedColumnLists(names) ==
    UNION {{[n \in DOMAIN order |-> MkIndexColumn(order[n], 0, FALSE, TRUE)] :
               order \in Orderings(T)} : T \in SUBSET names}

IndexColumnLists ==
    UNION {{key \o included :
               included \in IncludedColumnLists(
                   IndexedColumnNames \ {key[n].Name : n \in DOMAIN key})} :
           key \in KeyColumnLists}

IndexVariants ==
    {[MkIndex("Users", FALSE) EXCEPT
        !.IsUnique = kind[1], !.IsClustered = kind[2], !.Columns = columns] :
        kind \in {<<TRUE, FALSE>>, <<FALSE, FALSE>>, <<FALSE, TRUE>>},
        columns \in IndexColumnLists}

MkIndexSchema(index) ==
    [MkSchema({<<"table", "Users">>}, BaseDefinition, FALSE) EXCEPT
        !.Tables[1].Columns = <<IdColumn, EmailColumn(FALSE), NameColumn>>,
        !.Tables[1].Indexes = <<index>>]

InitIndexes ==
    /\ \E s \in IndexVariants, t \in IndexVariants :
          /\ source = MkIndexSchema(s)
          /\ target = MkIndexSchema(t)
    /\ options = DefaultDiffOptions
    /\ InitRun

\* Primary-keys family: dbo.Users with no primary key, or with one of either
\* name, clustered or not, over one or two key columns of either direction.
PrimaryKeyNames == {"PK_Users", "PK_Users_Id"}

PrimaryKeyVariants ==
    {Nil} \cup
    {<<[MkPrimaryKey("Users", FALSE) EXCEPT
          !.Name = name, !.IsClustered = clustered, !.Columns = columns]>> :
        name \in PrimaryKeyNames, clustered \in BOOLEAN,
        columns \in KeyColumnLists}

MkPrimaryKeySchema(pk) ==
    [MkSchema({<<"table", "Users">>}, BaseDefinition, FALSE) EXCEPT
        !.Tables[1].Columns = <<IdColumn, EmailColumn(FALSE), NameColumn>>,
        !.Tables[1].PrimaryKey = pk]

InitPrimaryKeys ==
    /\ \E s \in PrimaryKeyVariants, t \in PrimaryKeyVariants :
          /\ source = MkPrimaryKeySchema(s)
          /\ target = MkPrimaryKeySchema(t)
    /\ options = DefaultDiffOptions
    /\ InitRun

\* Constraints family: dbo.Users with one foreign key and one check
\* constraint.  The foreign key has one of two names and varies in its
\* referenced schema and table, its column pairs and its two actions; the
\* check constraint keeps its name and varies in definition and state.
ForeignKeyColumnLists ==
    {<<[ColumnName |-> "Id", ReferencedColumnName |-> "Id"]>>,
     <<[ColumnName |-> "Id", ReferencedColumnName |-> "Id"],
       [ColumnName |-> "Email", ReferencedColumnName |-> "Email"]>>}

ForeignKeyVariants ==
    {[MkForeignKey("Users", FALSE) EXCEPT
        !.Name = name, !.ReferencedSchemaName = schema,
        !.ReferencedTableName = table, !.Columns = columns,
        !.DeleteAction = onDelete, !.UpdateAction = onUpdate] :
        name \in {"FK_Users_Users", "FK_Users_Parent"},
        schema \in {"dbo", "ref"}, table \in {"Users", "Orders"},
        columns \in ForeignKeyColumnLists,
        onDelete \in {"NO_ACTION", "CASCADE"},
        onUpdate \in {"NO_ACTION", "SET_NULL"}}

CheckConstraintVariants ==
    {[MkCheckConstraint("Users", drift) EXCEPT !.IsDisabled = disabled] :
        drift \in BOOLEAN, disabled \in BOOLEAN}

MkConstraintSchema(fk, check) ==
    [MkSchema({<<"table", "Users">>}, BaseDefinition, FALSE) EXCEPT
        !.Tables[1].Columns = <<IdColumn, EmailColumn(FALSE)>>,
        !.Tables[1].ForeignKeys = <<fk>>,
        !.Tables[1].CheckConstraints = <<check>>]

InitConstraints ==
    /\ \E sfk \in ForeignKeyVariants, tfk \in ForeignKeyVariants,
          sck \in CheckConstraintVariants, tck \in CheckConstraintVariants :
          /\ source = MkConstraintSchema(sfk, sck)
          /\ target = MkConstraintSchema(tfk, tck)
    /\ options = DefaultDiffOptions
    /\ InitRun

\* Rearranged family: a schema with two of every kind of object (three
\* columns), some schemas that differ from it in one object, and the same
\* schemas with their lists in another order.  Compare takes any
\* DatabaseSchema; the order of a list is whatever its producer chose.
SecondOf(object, name) == [object EXCEPT !.Name = name]

WideTable ==
    [MkTable("Users", ({"table"} \cup NestedKinds) \X {"Users"}, FALSE) EXCEPT
        !.Columns = <<IdColumn, EmailColumn(FALSE), NameColumn>>,
        !.Indexes = <<MkIndex("Users", FALSE),
                      SecondOf(MkIndex("Users", FALSE), "IX_Users_Name")>>,
        !.ForeignKeys = <<SecondOf(MkForeignKey("Users", FALSE), "FK_Users_Orders"),
                          MkForeignKey("Users", FALSE)>>,
        !.CheckConstraints = <<MkCheckConstraint("Users", FALSE),
                               SecondOf(MkCheckConstraint("Users", FALSE),
                                        "CK_Users_Name")>>]

WideSchema ==
    [MkSchema(ModuleKinds \X {""}, BaseDefinition, FALSE) EXCEPT
        !.Tables = <<MkTable("Orders", {<<"table", "Orders">>, <<"pk", "Orders">>},
                             FALSE),
                     WideTable>>,
        !.Views = <<MkModule("ActiveUsers", BaseDefinition),
                    MkModule("AllUsers", BaseDefinition)>>,
        !.StoredProcedures = <<MkModule("GetOrder", BaseDefinition),
                               MkModule("GetUser", BaseDefinition)>>,
        !.Functions = <<MkFunction("fnCount", BaseDefinition),
                        MkFunction("fnTotal", BaseDefinition)>>,
        !.Triggers = <<MkTrigger("trAudit", BaseDefinition),
                       MkTrigger("trStamp", BaseDefinition)>>]

WideSchemas ==
    {WideSchema,
     [WideSchema EXCEPT !.Tables[2].Columns = <<IdColumn, NameColumn>>],
     [WideSchema EXCEPT !.Tables[2].Columns = <<IdColumn>>],
     [WideSchema EXCEPT !.Tables[2].Columns[2] = EmailColumn(TRUE)],
     [WideSchema EXCEPT !.Tables[2].Indexes = <<@[2]>>],
     [WideSchema EXCEPT !.Tables = <<@[2]>>],
     [WideSchema EXCEPT !.Views = <<@[1]>>,
                        !.Triggers[1].Definition = DriftedDefinition]}

Reverse(list) == [i \in DOMAIN list |-> list[Len(list) + 1 - i]]

Rearrangements ==
    {"asIs", "tables", "columns", "nested", "modules", "ordinals", "all"}

\* table t with its columns in reverse order (each keeping its ordinal), its
\* index, foreign-key and check-constraint lists reversed, or its columns
\* in place with their ordinals exchanged
RearrangedTable(t, kind) ==
    [t EXCEPT
        !.Columns =
            IF kind \in {"columns", "all"} THEN Reverse(@)
            ELSE IF kind = "ordinals"
            THEN [i \in DOMAIN @ |->
                    [@[i] EXCEPT !.OrdinalPosition = Len(t.Columns) + 1 - i]]
            ELSE @,
        !.Indexes = IF kind \in {"nested", "all"} THEN Reverse(@) ELSE @,
        !.ForeignKeys = IF kind \in {"nested", "all"} THEN Reverse(@) ELSE @,
        !.CheckConstraints = IF kind \in {"nested", "all"} THEN Reverse(@) ELSE @]

Rearranged(s, kind) ==
    LET tables == [i \in DOMAIN s.Tables |-> RearrangedTable(s.Tables[i], kind)]
    IN  [s EXCEPT
            !.Tables = IF kind \in {"tables", "all"} THEN Reverse(tables) ELSE tables,
            !.Views = IF kind \in {"modules", "all"} THEN Reverse(@) ELSE @,
            !.StoredProcedures = IF kind \in {"modules", "all"} THEN Reverse(@) ELSE @,
            !.Functions = IF kind \in {"modules", "all"} THEN Reverse(@) ELSE @,
            !.Triggers = IF kind \in {"modules", "all"} THEN Reverse(@) ELSE @]

InitRearranged ==
    /\ \E s \in WideSchemas, t \in WideSchemas, p \in Rearrangements :
          /\ source = Rearranged(s, p)
          /\ target = t
    /\ options = DefaultDiffOptions
    /\ InitRun

\* the same comparator on the same two schemas with their lists rearranged
CompareRearrangedStep ==
    /\ pc = "compared"
    /\ \E p \in Rearrangements, q \in Rearrangements :
          reverse' \in Compare(options, Rearranged(source, p), Rearranged(target, q))
    /\ pc' = "rearranged"
    /\ UNCHANGED <<adapter, source, target, options, result, report, script, cli>>

\* result := comparator.Compare(source, target)
CompareStep ==
    /\ pc = "ready"
    /\ result' \in Compare(options, source, target)
    /\ pc' = "compared"
    /\ UNCHANGED <<adapter, source, target, options, reverse, report, script, cli>>

\* the same comparator on the swapped arguments: Compare(target, source)
CompareSwappedStep ==
    /\ pc = "compared"
    /\ reverse' \in Compare(options, target, source)
    /\ pc' = "swapped"
    /\ UNCHANGED <<adapter, source, target, options, result, report, script, cli>>

\* a second comparator, built with IgnoreWhitespace set, on the same schemas
CompareIgnoringWhitespaceStep ==
    /\ pc = "compared"
    /\ reverse' \in Compare([options EXCEPT !.IgnoreWhitespace = TRUE],
                            source, target)
    /\ pc' = "ignoring"
    /\ UNCHANGED <<adapter, source, target, options, result, report, script, cli>>

\* report := result.PrintGitStyle()
PrintGitStyleStep ==
    /\ pc = "swapped"
    /\ report' = PrintGitStyle(result)
    /\ pc' = "printed"
    /\ UNCHANGED <<adapter, source, target, options, result, reverse, script, cli>>

\* script := result.GenerateMigrationScript()
GenerateMigrationScriptStep ==
    /\ pc = "printed"
    /\ script' = GenerateMigrationScript(result)
    /\ pc' = "scripted"
    /\ UNCHANGED <<adapter, source, target, options, result, reverse, report, cli>>

Next ==
    \/ CompareStep
    \/ CompareSwappedStep
    \/ PrintGitStyleStep
    \/ GenerateMigrationScriptStep

Spec == Init /\ [][Next]_vars

SpecColumns == InitColumns /\ [][Next]_vars

SpecColumnTypes == InitColumnTypes /\ [][Next]_vars

NextEquality ==
    \/ CompareStep
    \/ CompareSwappedStep
    \/ CompareIgnoringWhitespaceStep

SpecEquality == InitEquality /\ [][NextEquality]_vars

SpecDefinitions == InitDefinitions /\ [][Next]_vars

SpecIndexes == InitIndexes /\ [][Next]_vars

SpecPrimaryKeys == InitPrimaryKeys /\ [][Next]_vars

SpecConstraints == InitConstraints /\ [][Next]_vars

(***************************************************************************)
(* runDiff (diff.go 96-238).  source and target are the schemas of the two *)
(* databases, which ExtractSchema returns when it succeeds; whether a       *)
(* connection or an extraction succeeds is the environment's choice.       *)
(***************************************************************************)
\* diffOpts: IgnoreWhitespace is always true; the family leaves at most one
\* of the --no-* flags set
InitRunDiff ==
    /\ pc = "runDiff"
    /\ result = NoResult
    /\ reverse = NoResult
    /\ report = <<>>
    /\ script = <<>>
    /\ output = <<>>
    /\ returned = Running
    /\ targetConfig = NewConnectionConfig
    /\ calls = <<>>
    /\ AdapterIdle

RunDiffOptions ==
    {o \in AllDiffOptions :
        /\ o.IgnoreWhitespace
        /\ ~o.IgnoreCollation
        /\ Cardinality({f \in DOMAIN o : ~o[f]}) <= 2}

InitDiff ==
    /\ \E s \in NearFullShapes \cup {{}}, t \in NearFullShapes \cup {{}} :
          /\ FullShape \in {s, t}
          /\ source = MkSchema(s, BaseDefinition, FALSE)
          /\ target = MkSchema(t, BaseDefinition, FALSE)
    /\ options \in RunDiffOptions
    /\ flags \in AllFlags
    /\ sourceConfig = [NewConnectionConfig EXCEPT
          !.Server = "db1", !.Database = "Sales", !.User = "sa",
          !.Password = "secret"]
    /\ targetFlags = [DefaultTargetFlags EXCEPT !.targetDatabase = "Stage"]
    /\ InitRunDiff

\* the configurations family: every combination of the global connection
\* flags and of the --target-* flags below, over an equal and an unequal
\* pair of schemas
ConnectionConfigs ==
    {[NewConnectionConfig EXCEPT
        !.Server = f[1], !.Database = f[2], !.User = f[3], !.Password = f[4],
        !.TrustedAuth = f[5], !.Port = f[6]] :
        f \in {"", "db1"} \X {"", "Sales"} \X {"", "sa"} \X
              {"", "secret", "hunter2"} \X BOOLEAN \X {0, 1433, 65536}}

TargetFlagSets ==
    [targetServer : {"", "db2"}, targetDatabase : {"", "Stage"},
     targetUser : {"", "app"}, targetPassword : {"", "pw"},
     targetTrusted : BOOLEAN, targetPort : {0, 1434}]

InitDiffConfigs ==
    /\ source = MkSchema(FullShape, BaseDefinition, FALSE)
    /\ target \in {source, MkSchema(FullShape \ {<<"view", "">>},
                                     BaseDefinition, FALSE)}
    /\ options = DefaultDiffOptions
    /\ flags = DefaultFlags
    /\ sourceConfig \in ConnectionConfigs
    /\ targetFlags \in TargetFlagSets
    /\ InitRunDiff

\* both configurations are built and validated (96-131)
RunDiffValidateStep ==
    /\ pc = "runDiff"
    /\ LET derived == DeriveTargetConfig(sourceConfig, targetFlags) IN
       IF Validate(sourceConfig) # ""
       THEN /\ returned' = "source configuration error: " \o Validate(sourceConfig)
            /\ pc' = "returned"
            /\ UNCHANGED targetConfig
       ELSE /\ targetConfig' = derived
            /\ IF Validate(derived) # ""
               THEN /\ returned' = "target configuration error: " \o Validate(derived)
                    /\ pc' = "returned"
               ELSE /\ pc' = "validated"
                    /\ UNCHANGED returned
    /\ UNCHANGED <<adapter, source, target, options, result, reverse, report, script,
                   flags, output, sourceConfig, targetFlags, calls>>

\* the source and then the target adapter connect (133-151); a return after
\* the source has connected runs its deferred Close
RunDiffConnectStep ==
    /\ pc = "validated"
    /\ \E sourceUp \in BOOLEAN, targetUp \in BOOLEAN :
        LET toSource == <<Emit("stderr", <<"Connecting to source: " \o
                                SafeString(sourceConfig) \o "...">>)>>
            toTarget == <<Emit("stderr", <<"\\033[32m(ok) Source connected\\033[0m">>),
                          Emit("stderr", <<"Connecting to target: " \o
                                SafeString(targetConfig) \o "...">>)>>
        IN  IF ~sourceUp
            THEN /\ output' = output \o toSource
                 /\ calls' = calls \o <<"sourceAdapter.Connect">>
                 /\ returned' = "source connection failed"
                 /\ pc' = "returned"
            ELSE IF ~targetUp
            THEN /\ output' = output \o toSource \o toTarget
                 /\ calls' = calls \o <<"sourceAdapter.Connect",
                                         "targetAdapter.Connect",
                                         "sourceAdapter.Close">>
                 /\ returned' = "target connection failed"
                 /\ pc' = "returned"
            ELSE /\ output' = output \o toSource \o toTarget \o
                        <<Emit("stderr", <<"\\033[32m(ok) Target connected\\033[0m">>)>>
                 /\ calls' = calls \o <<"sourceAdapter.Connect",
                                         "targetAdapter.Connect">>
                 /\ pc' = "connected"
                 /\ UNCHANGED returned
    /\ UNCHANGED <<adapter, source, target, options, result, reverse, report, script,
                   flags, sourceConfig, targetFlags, targetConfig>>

\* the deferred calls of a return after both adapters have connected
DeferredClose == <<"targetAdapter.Close", "sourceAdapter.Close">>

\* the extraction step going on to the target after the source has failed
RunDiffExtractStep_continues ==
    /\ pc = "connected"
    /\ output' = output \o <<Emit("stderr", <<"Extracting source schema...">>),
                              Emit("stderr", <<"Extracting target schema...">>)>>
    /\ calls' = calls \o <<"sourceExtractor.ExtractSchema",
                            "targetExtractor.ExtractSchema">> \o DeferredClose
    /\ returned' = "failed to extract source schema"
    /\ pc' = "returned"
    /\ UNCHANGED <<adapter, source, target, options, result, reverse, report, script,
                   flags, sourceConfig, targetFlags, targetConfig>>

\* the source and then the target schema are extracted (153-179)
RunDiffExtractStep ==
    /\ pc = "connected"
    /\ \E sourceRead \in BOOLEAN, targetRead \in BOOLEAN :
        LET fromSource == <<Emit("stderr", <<"Extracting source schema...">>)>>
            fromTarget == <<Emit("stderr", <<"Extracting target schema...">>)>>
        IN  IF ~sourceRead
            THEN /\ output' = output \o fromSource
                 /\ calls' = calls \o <<"sourceExtractor.ExtractSchema">> \o
                                DeferredClose
                 /\ returned' = "failed to extract source schema"
                 /\ pc' = "returned"
            ELSE IF ~targetRead
            THEN /\ output' = output \o fromSource \o fromTarget
                 /\ calls' = calls \o <<"sourceExtractor.ExtractSchema",
                                         "targetExtractor.ExtractSchema">> \o
                                DeferredClose
                 /\ returned' = "failed to extract target schema"
                 /\ pc' = "returned"
            ELSE /\ output' = output \o fromSource \o fromTarget
                 /\ calls' = calls \o <<"sourceExtractor.ExtractSchema",
                                         "targetExtractor.ExtractSchema">>
                 /\ pc' = "extracted"
                 /\ UNCHANGED returned
    /\ UNCHANGED <<adapter, source, target, options, result, reverse, report, script,
                   flags, sourceConfig, targetFlags, targetConfig>>

\* "Comparing schemas...", result := comparator.Compare(...), blank line
RunDiffCompareStep ==
    /\ pc = "extracted"
    /\ result' \in Compare(options, source, target)
    /\ output' = output \o <<Emit("stderr", <<"Comparing schemas...">>),
                              Emit("stderr", <<"">>)>>
    /\ calls' = calls \o <<"comparator.Compare">>
    /\ pc' = "diffed"
    /\ UNCHANGED <<adapter, source, target, options, reverse, report, script, flags,
                   returned, sourceConfig, targetFlags, targetConfig>>

\* if !result.HasDifferences() { Println(identical); return nil }
RunDiffIdenticalStep ==
    /\ pc = "diffed"
    /\ ~HasDifferences(result)
    /\ output' = output \o
          <<Emit("stdout", <<"\\033[32m(ok) Schemas are identical\\033[0m">>)>>
    /\ returned' = NilError
    /\ calls' = calls \o DeferredClose
    /\ pc' = "returned"
    /\ UNCHANGED <<adapter, source, target, options, result, reverse, report, script,
                   flags, sourceConfig, targetFlags, targetConfig>>

\* the switch on outputFormat
RunDiffReportStep ==
    /\ pc = "diffed"
    /\ HasDifferences(result)
    /\ \E writes \in ReportWrites(flags.outputFormat, result) :
          output' = output \o writes
    /\ report' = IF flags.outputFormat = "summary" THEN report
                 ELSE PrintGitStyle(result)
    /\ pc' = "reported"
    /\ UNCHANGED <<adapter, source, target, options, result, reverse, script, flags,
                   returned, sourceConfig, targetFlags, targetConfig, calls>>

\* if generateMigration { ... }; return nil.  os.WriteFile succeeds or
\* fails; when it fails nothing is recorded as written.
RunDiffMigrationStep ==
    /\ pc = "reported"
    /\ IF flags.generateMigration
       THEN /\ script' = GenerateMigrationScript(result)
            /\ IF flags.migrationFile # ""
               THEN \E written \in BOOLEAN :
                      IF written
                      THEN /\ output' = output \o
                                <<Emit(flags.migrationFile, script'),
                                  Emit("stderr",
                                       <<"", "\\033[32m(ok) Migration script written to "
                                             \o flags.migrationFile \o "\\033[0m">>)>>
                           /\ returned' = NilError
                      ELSE /\ output' = output
                           /\ returned' = "failed to write migration file"
               ELSE /\ output' = output \o <<Emit("stdout", <<"">> \o script')>>
                    /\ returned' = NilError
       ELSE /\ returned' = NilError
            /\ UNCHANGED <<script, output>>
    /\ calls' = calls \o DeferredClose
    /\ pc' = "returned"
    /\ UNCHANGED <<adapter, source, target, options, result, reverse, report, flags,
                   sourceConfig, targetFlags, targetConfig>>

NextDiff ==
    \/ RunDiffValidateStep
    \/ RunDiffConnectStep
    \/ RunDiffExtractStep
    \/ RunDiffCompareStep
    \/ RunDiffIdenticalStep
    \/ RunDiffReportStep
    \/ RunDiffMigrationStep

SpecDiff == InitDiff /\ [][NextDiff]_vars

SpecDiffConfigs == InitDiffConfigs /\ [][NextDiff]_vars

(***************************************************************************)
(* The adapter: NewAdapter(config), then any calls of its methods and of   *)
(* the interactive approver, with any input on stdin.                      *)
(***************************************************************************)
MaxExecuted == 2    \* SQL texts handed to the database in one run

comparison == <<source, target, options, pc, result, reverse, report, script>>

Confirm == <<"C", "O", "N", "F", "I", "R", "M">>

Responses ==
    {<<"y">>, <<"Y">>, <<"y", "e", "s">>, <<"Y", "e", "S">>, <<" ", "y", "\r">>,
     <<"y", "e">>, <<"n">>, <<>>, Confirm, ToLower(Confirm),
     <<" ">> \o Confirm \o <<"\r">>, Confirm \o <<"E", "D">>}

StdinEntries == [text : Responses, terminated : BOOLEAN]

\* what is typed: nothing, one entry, or one entry and a "yes" after it
Inputs ==
    {<<>>} \cup {<<e>> : e \in StdinEntries}
    \cup {<<e, [text |-> <<"y", "e", "s">>, terminated |-> TRUE]>> :
             e \in StdinEntries}

\* the levels a request can carry: the three constants and another int
ApprovalLevels == {ReadOnly, Modification, Destructive, 3}

SQLTexts == {"SELECT 1", "DROP TABLE Users"}

\* the state NewAdapter(config) returns, under either value of --dry-run
InitAdapter ==
    /\ source = MkSchema({}, BaseDefinition, FALSE)
    /\ target = source
    /\ options = DefaultDiffOptions
    /\ RunIdle
    /\ config \in {NewConnectionConfig,
                    [NewConnectionConfig EXCEPT !.Server = "db1",
                        !.Database = "Sales", !.TrustedAuth = TRUE]}
    /\ db = "nil"
    /\ approver = "InteractiveApprover"
    /\ dryRun \in BOOLEAN
    /\ stdin \in Inputs
    /\ executed = <<>>
    /\ outcome = NoOutcome

\* Connect keeping the pool whose ping failed
ConnectStep_keepsFailedPool ==
    /\ \E err \in {"", "failed to open connection", "failed to ping database"} :
          /\ outcome' = Outcome("Connect", ReadOnly, "", err, FALSE, <<>>, <<>>)
          /\ db' = IF err = "failed to open connection" THEN db ELSE "open"
    /\ UNCHANGED <<comparison, cli, config, approver, dryRun, stdin, executed>>

\* Adapter.Connect: sql.Open or the ping may fail
ConnectStep ==
    /\ IF Validate(config) # ""
       THEN /\ outcome' = Outcome("Connect", ReadOnly, "",
                    "invalid configuration: " \o Validate(config), FALSE, <<>>, <<>>)
            /\ UNCHANGED db
       ELSE \E err \in {"", "failed to open connection", "failed to ping database"} :
            /\ outcome' = Outcome("Connect", ReadOnly, "", err, FALSE, <<>>, <<>>)
            /\ db' = IF err = "" THEN "open" ELSE db
    /\ UNCHANGED <<comparison, cli, config, approver, dryRun, stdin, executed>>

\* Adapter.Ping
PingStep ==
    /\ \E err \in IF db = "nil" THEN {"not connected"}
                  ELSE IF db = "open" THEN {"", "ping failed"}
                  ELSE {"sql: database is closed"} :
          outcome' = Outcome("Ping", ReadOnly, "", err, FALSE, <<>>, <<>>)
    /\ UNCHANGED <<comparison, cli, config, db, approver, dryRun, stdin, executed>>

\* Adapter.Close: the pool is closed and a.db keeps pointing to it
CloseStep ==
    /\ db' = IF db = "nil" THEN "nil" ELSE "closed"
    /\ outcome' = Outcome("Close", ReadOnly, "", "", FALSE, <<>>, <<>>)
    /\ UNCHANGED <<comparison, cli, config, approver, dryRun, stdin, executed>>

\* Adapter.GetServerInfo
GetServerInfoStep ==
    /\ \E err \in IF db = "nil" THEN {"not connected"}
                  ELSE IF db = "open" THEN {"", "failed to get server info"}
                  ELSE {"failed to get server info"} :
          outcome' = Outcome("GetServerInfo", ReadOnly, "", err, FALSE, <<>>, <<>>)
    /\ UNCHANGED <<comparison, cli, config, db, approver, dryRun, stdin, executed>>

\* Adapter.SetApprover
SetApproverStep ==
    /\ approver' \in Approvers
    /\ outcome' = Outcome("SetApprover", ReadOnly, "", "", FALSE, <<>>, <<>>)
    /\ UNCHANGED <<comparison, cli, config, db, dryRun, stdin, executed>>

\* ExecuteWithApproval executing without consulting the approver
ExecuteWithApprovalStep_unasked ==
    /\ Len(executed) < MaxExecuted
    /\ \E sqlText \in SQLTexts, level \in ApprovalLevels :
          /\ executed' = executed \o <<sqlText>>
          /\ outcome' = Outcome("ExecuteWithApproval", level, sqlText, "", FALSE,
                                <<>>, <<"ExecContext">>)
    /\ UNCHANGED <<comparison, cli, config, db, approver, dryRun, stdin>>

\* Adapter.ExecuteWithApproval(ctx, sqlText, level, operation)
ExecuteWithApprovalStep ==
    /\ Len(executed) < MaxExecuted
    /\ \E sqlText \in SQLTexts, level \in ApprovalLevels :
        LET asked == RequestApproval(approver, level, stdin)
            trace == <<"RequestApproval">> \o asked.trace
            line == LineRead(asked, stdin)
        IN  IF db = "nil"
            THEN /\ outcome' = Outcome("ExecuteWithApproval", level, sqlText,
                                       "not connected", FALSE, <<>>, <<>>)
                 /\ UNCHANGED <<stdin, executed>>
            ELSE /\ stdin' = asked.stdin
                 /\ IF asked.err # ""
                    THEN /\ outcome' = Outcome("ExecuteWithApproval", level, sqlText,
                                "approval error: " \o asked.err, FALSE, line, trace)
                         /\ UNCHANGED executed
                    ELSE IF ~asked.approved
                    THEN /\ outcome' = Outcome("ExecuteWithApproval", level, sqlText,
                                "operation cancelled by user", FALSE, line, trace)
                         /\ UNCHANGED executed
                    ELSE IF db = "closed"
                    THEN /\ outcome' = Outcome("ExecuteWithApproval", level, sqlText,
                                "execution failed", TRUE, line,
                                trace \o <<"ExecContext">>)
                         /\ UNCHANGED executed
                    ELSE /\ executed' = executed \o <<sqlText>>
                         /\ \E err \in {"", "execution failed"} :
                              outcome' = Outcome("ExecuteWithApproval", level,
                                sqlText, err, TRUE, line, trace \o <<"ExecContext">>)
    /\ UNCHANGED <<comparison, cli, config, db, approver, dryRun>>

\* InteractiveApprover.RequestApproval(req), called on its own
RequestApprovalStep ==
    /\ \E level \in ApprovalLevels :
        LET asked == RequestApproval("InteractiveApprover", level, stdin) IN
        /\ stdin' = asked.stdin
        /\ outcome' = Outcome("RequestApproval", level, "", asked.err,
                              asked.approved, LineRead(asked, stdin), asked.trace)
    /\ UNCHANGED <<comparison, cli, config, db, approver, dryRun, executed>>

NextAdapter ==
    \/ ConnectStep
    \/ PingStep
    \/ CloseStep
    \/ GetServerInfoStep
    \/ SetApproverStep
    \/ ExecuteWithApprovalStep
    \/ RequestApprovalStep

SpecAdapter == InitAdapter /\ [][NextAdapter]_vars

NextRearranged == CompareStep \/ CompareRearrangedStep

SpecRearranged == InitRearranged /\ [][NextRearranged]_vars


(***************************************************************************)
(* Vocabulary of the properties                                            *)
(***************************************************************************)
Compared == pc \in {"compared", "swapped", "printed", "scripted"}
Swapped  == pc \in {"swapped", "printed", "scripted"}
Printed  == pc \in {"printed", "scripted"}
Scripted == pc = "scripted"

RemoveAt(list, i) == SubSeq(list, 1, i - 1) \o SubSeq(list, i + 1, Len(list))

\* The objects of a schema: <<kind, i, j>> is the i-th table, view,
\* procedure, function or trigger, or the j-th column, index, foreign key or
\* check constraint of the i-th table.
ObjectRefs(s) ==
    {<<"table", i, 0>> : i \in DOMAIN s.Tables}
    \cup UNION {{<<"column", i, j>> : j \in DOMAIN s.Tables[i].Columns}
                : i \in DOMAIN s.Tables}
    \cup UNION {{<<"index", i, j>> : j \in DOMAIN s.Tables[i].Indexes}
                : i \in DOMAIN s.Tables}
    \cup UNION {{<<"fk", i, j>> : j \in DOMAIN s.Tables[i].ForeignKeys}
                : i \in DOMAIN s.Tables}
    \cup UNION {{<<"check", i, j>> : j \in DOMAIN s.Tables[i].CheckConstraints}
                : i \in DOMAIN s.Tables}
    \cup {<<"view", i, 0>> : i \in DOMAIN s.Views}
    \cup {<<"procedure", i, 0>> : i \in DOMAIN s.StoredProcedures}
    \cup {<<"function", i, 0>> : i \in DOMAIN s.Functions}
    \cup {<<"trigger", i, 0>> : i \in DOMAIN s.Triggers}

\* schema s without its object o, everything else as it is
RemoveObject(s, o) ==
    CASE o[1] = "table"  -> [s EXCEPT !.Tables = RemoveAt(@, o[2])]
      [] o[1] = "column" -> [s EXCEPT !.Tables[o[2]].Columns = RemoveAt(@, o[3])]
      [] o[1] = "index"  -> [s EXCEPT !.Tables[o[2]].Indexes = RemoveAt(@, o[3])]
      [] o[1] = "fk"     ->
            [s EXCEPT !.Tables[o[2]].ForeignKeys = RemoveAt(@, o[3])]
      [] o[1] = "check"  ->
            [s EXCEPT !.Tables[o[2]].CheckConstraints = RemoveAt(@, o[3])]
      [] o[1] = "view"      -> [s EXCEPT !.Views = RemoveAt(@, o[2])]
      [] o[1] = "procedure" -> [s EXCEPT !.StoredProcedures = RemoveAt(@, o[2])]
      [] o[1] = "function"  -> [s EXCEPT !.Functions = RemoveAt(@, o[2])]
      [] o[1] = "trigger"   -> [s EXCEPT !.Triggers = RemoveAt(@, o[2])]

\* the category a difference about an object of this kind is filed under
CategoryOfKind(kind) ==
    CASE kind = "table"     -> "TABLE"
      [] kind = "column"    -> "COLUMN"
      [] kind = "index"     -> "INDEX"
      [] kind = "fk"        -> "FOREIGN_KEY"
      [] kind = "check"     -> "CONSTRAINT"
      [] kind = "view"      -> "VIEW"
      [] kind = "procedure" -> "PROCEDURE"
      [] kind = "function"  -> "FUNCTION"
      [] kind = "trigger"   -> "TRIGGER"

\* the fully-qualified name a difference carries for object o of schema s
Bracketed(schemaName, name) == "[" \o schemaName \o "].[" \o name \o "]"

ObjectNameOf(s, o) ==
    LET t == s.Tables[o[2]] IN
    CASE o[1] = "table"  -> Bracketed(t.SchemaName, t.Name)
      [] o[1] = "column" ->
            Bracketed(t.SchemaName, t.Name) \o "." \o t.Columns[o[3]].Name
      [] o[1] = "index"  ->
            Bracketed(t.SchemaName, t.Name) \o "." \o t.Indexes[o[3]].Name
      [] o[1] = "fk"     ->
            Bracketed(t.SchemaName, t.Name) \o "." \o t.ForeignKeys[o[3]].Name
      [] o[1] = "check"  ->
            Bracketed(t.SchemaName, t.Name) \o "." \o t.CheckConstraints[o[3]].Name
      [] o[1] = "view"      ->
            Bracketed(s.Views[o[2]].SchemaName, s.Views[o[2]].Name)
      [] o[1] = "procedure" ->
            Bracketed(s.StoredProcedures[o[2]].SchemaName,
                      s.StoredProcedures[o[2]].Name)
      [] o[1] = "function"  ->
            Bracketed(s.Functions[o[2]].SchemaName, s.Functions[o[2]].Name)
      [] o[1] = "trigger"   ->
            Bracketed(s.Triggers[o[2]].SchemaName, s.Triggers[o[2]].TableName)
            \o ".[" \o s.Triggers[o[2]].Name \o "]"

\* the options include the category of this kind of object: its own Include
\* flag, and IncludeTables for everything that lives in a table
IncludedKind(opts, kind) ==
    CASE kind = "table"     -> opts.IncludeTables
      [] kind = "column"    -> opts.IncludeTables
      [] kind = "index"     -> opts.IncludeTables /\ opts.IncludeIndexes
      [] kind = "fk"        -> opts.IncludeTables /\ opts.IncludeForeignKeys
      [] kind = "check"     -> opts.IncludeTables /\ opts.IncludeConstraints
      [] kind = "view"      -> opts.IncludeViews
      [] kind = "procedure" -> opts.IncludeProcedures
      [] kind = "function"  -> opts.IncludeFunctions
      [] kind = "trigger"   -> opts.IncludeTriggers

\* the objects of source whose absence is all that separates target from it
OnlyInSource == {o \in ObjectRefs(source) : target = RemoveObject(source, o)}

(***************************************************************************)
(* C1  Reflexivity                                                         *)
(***************************************************************************)
\* C1: for every schema S and every DiffOptions value, Compare(S, S) returns
\* an empty Differences list and a summary whose counts are all zero.
C1_Reflexivity ==
    (Compared /\ source = target) =>
        /\ result.Differences = <<>>
        /\ result.Summary.TotalDifferences = 0
        /\ result.Summary.Added = 0
        /\ result.Summary.Removed = 0
        /\ result.Summary.Modified = 0
        /\ \A c \in DOMAIN result.Summary.ByCategory :
              result.Summary.ByCategory[c] = 0

\* a schema with a table and modules compared with itself under options that
\* are not the default ones
C1_Witness ==
    /\ Compared
    /\ source = target
    /\ Len(source.Tables) > 0
    /\ Len(source.Tables[1].Indexes) > 0
    /\ Len(source.Views) > 0
    /\ options.IgnoreCollation
    /\ ~options.IncludeProcedures

(***************************************************************************)
(* C2  Kind inversion                                                      *)
(***************************************************************************)
\* the list holds exactly one difference, of this type, for object o of s
OnlyDifference(diffs, type, s, o) ==
    /\ Len(diffs) = 1
    /\ diffs[1].Type = type
    /\ diffs[1].Category = CategoryOfKind(o[1])
    /\ diffs[1].ObjectName = ObjectNameOf(s, o)

\* C2: when source and target differ only by one object (table, column,
\* index, foreign key, check constraint, view, procedure, function, trigger)
\* that source has and target lacks, and the options include its category,
\* Compare(source, target) yields exactly one difference, Removed for that
\* object, and Compare(target, source) exactly one, Added for it; a missing
\* table yields the table-level difference alone.
C2_KindInversion ==
    Compared =>
        \A o \in OnlyInSource :
            IncludedKind(options, o[1]) =>
                /\ OnlyDifference(result.Differences, DiffRemoved, source, o)
                /\ Swapped =>
                      OnlyDifference(reverse.Differences, DiffAdded, source, o)

\* a table with an index, a foreign key, a check constraint and a primary key
\* is all that target lacks, and both calls have returned
C2_Witness ==
    /\ Swapped
    /\ \E o \in OnlyInSource :
          /\ o[1] = "table"
          /\ Len(source.Tables[o[2]].Indexes) > 0
          /\ Len(source.Tables[o[2]].ForeignKeys) > 0
          /\ Len(source.Tables[o[2]].CheckConstraints) > 0
          /\ source.Tables[o[2]].PrimaryKey # Nil
          /\ IncludedKind(options, o[1])
    /\ Len(result.Differences) = 1
    /\ Len(reverse.Differences) = 1

(***************************************************************************)
(* C3  What the swapped calls share                                        *)
(***************************************************************************)
\* C3 as stated: for source and target differing only by one object of
\* source, the Removed difference of Compare(source, target) and the Added
\* difference of Compare(target, source) carry the same object name, the
\* same category and the same description.
C3_SwapSameDescription ==
    (Swapped /\ \E o \in OnlyInSource : IncludedKind(options, o[1])) =>
        /\ Len(result.Differences) = 1
        /\ Len(reverse.Differences) = 1
        /\ result.Differences[1].ObjectName = reverse.Differences[1].ObjectName
        /\ result.Differences[1].Category = reverse.Differences[1].Category
        /\ result.Differences[1].Description = reverse.Differences[1].Description

\* C3 amended: the two differences carry the same object name and the same
\* category; the description is worded for the direction and differs.
C3_SwapSameObject ==
    (Swapped /\ \E o \in OnlyInSource : IncludedKind(options, o[1])) =>
        /\ Len(result.Differences) = 1
        /\ Len(reverse.Differences) = 1
        /\ result.Differences[1].Type = DiffRemoved
        /\ reverse.Differences[1].Type = DiffAdded
        /\ result.Differences[1].ObjectName = reverse.Differences[1].ObjectName
        /\ result.Differences[1].Category = reverse.Differences[1].Category
        /\ result.Differences[1].Description # reverse.Differences[1].Description

\* a view is all that target lacks, and both calls have returned
C3_Witness ==
    /\ Swapped
    /\ \E o \in OnlyInSource : o[1] = "view" /\ IncludedKind(options, o[1])
    /\ Len(result.Differences) = 1
    /\ result.Differences[1].Category = DiffCategoryView
    /\ Len(reverse.Differences) = 1

(***************************************************************************)
(* C4  Property isolation                                                  *)
(***************************************************************************)
\* source and target hold the same single table and are identical except for
\* the properties of its j-th column, which has the same name on both sides
SameButColumn(j) ==
    /\ Len(source.Tables) = 1
    /\ Len(target.Tables) = 1
    /\ j \in DOMAIN source.Tables[1].Columns
    /\ j \in DOMAIN target.Tables[1].Columns
    /\ source.Tables[1].Columns[j].Name = target.Tables[1].Columns[j].Name
    /\ target = [source EXCEPT !.Tables[1].Columns[j] = target.Tables[1].Columns[j]]

\* the compared properties in which column s differs from column t, each
\* with the text of its value in s and in t; collation counts when compared
ColumnChanges(s, t, withCollation) ==
    {<<"DataType", s.DataType, t.DataType>> : x \in {1} \cap
        {IF s.DataType # t.DataType THEN 1 ELSE 0}}
    \cup {<<"MaxLength", ToString(s.MaxLength), ToString(t.MaxLength)>> :
        x \in {1} \cap {IF s.MaxLength # t.MaxLength THEN 1 ELSE 0}}
    \cup {<<"Precision/Scale",
            "(" \o ToString(s.Precision) \o "," \o ToString(s.Scale) \o ")",
            "(" \o ToString(t.Precision) \o "," \o ToString(t.Scale) \o ")">> :
        x \in {1} \cap
            {IF <<s.Precision, s.Scale>> # <<t.Precision, t.Scale>> THEN 1 ELSE 0}}
    \cup {<<"Nullability", IF s.IsNullable THEN "NULL" ELSE "NOT NULL",
            IF t.IsNullable THEN "NULL" ELSE "NOT NULL">> :
        x \in {1} \cap {IF s.IsNullable # t.IsNullable THEN 1 ELSE 0}}
    \cup {<<"Identity", IF s.IsIdentity THEN "true" ELSE "false",
            IF t.IsIdentity THEN "true" ELSE "false">> :
        x \in {1} \cap {IF s.IsIdentity # t.IsIdentity THEN 1 ELSE 0}}
    \cup {<<"Collation", s.Collation, t.Collation>> :
        x \in {1} \cap
            {IF withCollation /\ s.Collation # t.Collation THEN 1 ELSE 0}}

\* C4: two otherwise-identical tables (tables included) whose same-named
\* column differs in k of the compared properties (data type, max length,
\* the precision/scale pair, nullability, identity, and collation unless
\* IgnoreCollation) yield exactly k differences, one per property: each is
\* Modified, category COLUMN, names the column, and carries the property
\* name with the text of the source and of the target value.
C4_PropertyIsolation ==
    Compared =>
        \A j \in DOMAIN source.Tables[1].Columns :
            (SameButColumn(j) /\ options.IncludeTables) =>
                LET s == source.Tables[1].Columns[j]
                    t == target.Tables[1].Columns[j]
                    changes == ColumnChanges(s, t, ~options.IgnoreCollation)
                    diffs == result.Differences
                IN  /\ Len(diffs) = Cardinality(changes)
                    /\ \A n \in DOMAIN diffs :
                          /\ diffs[n].Type = DiffModified
                          /\ diffs[n].Category = DiffCategoryColumn
                          /\ diffs[n].ObjectName =
                                Bracketed(source.Tables[1].SchemaName,
                                          source.Tables[1].Name) \o "." \o s.Name
                    /\ \A c \in changes :
                          Cardinality({n \in DOMAIN diffs :
                              <<diffs[n].PropertyName, diffs[n].SourceValue,
                                diffs[n].TargetValue>> = c}) = 1

\* dbo.Users.Email is varchar(100) NOT NULL in source and varchar(255) NOT
\* NULL in target, and the result is the one MaxLength record 100 -> 255
C4_Witness ==
    /\ Compared
    /\ SameButColumn(2)
    /\ source.Tables[1].Columns[2].MaxLength = 100
    /\ target.Tables[1].Columns[2].MaxLength = 255
    /\ ~source.Tables[1].Columns[2].IsNullable
    /\ Len(result.Differences) = 1
    /\ result.Differences[1].Type = "MODIFIED"
    /\ result.Differences[1].Category = "COLUMN"
    /\ result.Differences[1].ObjectName = "[dbo].[Users].Email"
    /\ result.Differences[1].PropertyName = "MaxLength"
    /\ result.Differences[1].SourceValue = "100"
    /\ result.Differences[1].TargetValue = "255"

(***************************************************************************)
(* C6  Collation suppression                                               *)
(***************************************************************************)
\* C6: two same-named columns (tables included) that differ only in
\* Collation produce no difference when IgnoreCollation is true and exactly
\* one, Modified with PropertyName "Collation", when it is false; and with
\* either setting every other differing property is still reported.
C6_CollationSuppression ==
    Compared =>
        \A j \in DOMAIN source.Tables[1].Columns :
            (SameButColumn(j) /\ options.IncludeTables) =>
                LET s == source.Tables[1].Columns[j]
                    t == target.Tables[1].Columns[j]
                    diffs == result.Differences
                    reported == {diffs[n].PropertyName : n \in DOMAIN diffs}
                    others == {c[1] : c \in ColumnChanges(s, t, FALSE)}
                IN  /\ (others = {} /\ s.Collation # t.Collation) =>
                          IF options.IgnoreCollation
                          THEN diffs = <<>>
                          ELSE /\ Len(diffs) = 1
                               /\ diffs[1].Type = DiffModified
                               /\ diffs[1].PropertyName = "Collation"
                    /\ reported \ {"Collation"} = others
                    /\ options.IgnoreCollation => "Collation" \notin reported

\* the two Email columns differ in collation only, IgnoreCollation is set and
\* Compare has returned no difference
C6_Witness ==
    /\ Compared
    /\ options.IgnoreCollation
    /\ SameButColumn(2)
    /\ source.Tables[1].Columns[2].Collation # target.Tables[1].Columns[2].Collation
    /\ ColumnChanges(source.Tables[1].Columns[2], target.Tables[1].Columns[2],
                     FALSE) = {}
    /\ result.Differences = <<>>

(***************************************************************************)
(* C5  Whitespace-aware definition equality                                *)
(***************************************************************************)
\* the words of a text: its maximal runs of characters that are not white
\* space, in order
RECURSIVE WordsFrom(_, _)
WordsFrom(text, word) ==
    IF Len(text) = 0 THEN (IF word = <<>> THEN <<>> ELSE <<word>>)
    ELSE IF text[1] \in {" ", "\t", "\n", "\f", "\r"}
         THEN (IF word = <<>> THEN <<>> ELSE <<word>>) \o WordsFrom(Tail(text), <<>>)
         ELSE WordsFrom(Tail(text), Append(word, text[1]))

Words(text) == WordsFrom(text, <<>>)

\* two different texts with the same words: they differ only in white space
DifferInWhitespaceOnly(a, b) == a # b /\ Words(a) = Words(b)

\* the modules of a schema by kind, and their keys
ModulesOf(s, kind) ==
    CASE kind = "view"      -> s.Views
      [] kind = "procedure" -> s.StoredProcedures
      [] kind = "function"  -> s.Functions
      [] kind = "trigger"   -> s.Triggers

\* the differences of a list filed under this category for this object
About(diffs, category, name) ==
    {n \in DOMAIN diffs :
        diffs[n].Category = category /\ diffs[n].ObjectName = name}

\* C5: two same-named views (procedures, functions, triggers) of an included
\* category whose definitions differ only in the white space between their
\* words or at their ends produce no difference when IgnoreWhitespace is
\* true and exactly one, Modified, for that object when it is false.
C5_WhitespaceEquality ==
    Compared =>
        \A kind \in ModuleKinds :
            \A i \in DOMAIN ModulesOf(source, kind),
               j \in DOMAIN ModulesOf(target, kind) :
                LET name == ObjectNameOf(source, <<kind, i, 0>>)
                    about == About(result.Differences, CategoryOfKind(kind), name)
                IN  (/\ name = ObjectNameOf(target, <<kind, j, 0>>)
                     /\ IncludedKind(options, kind)
                     /\ DifferInWhitespaceOnly(
                            ModulesOf(source, kind)[i].Definition,
                            ModulesOf(target, kind)[j].Definition)) =>
                        IF options.IgnoreWhitespace
                        THEN about = {}
                        ELSE /\ Cardinality(about) = 1
                             /\ \A n \in about :
                                   result.Differences[n].Type = DiffModified

\* the view reads "a a" in source and "a", tab, space, "a" in target,
\* IgnoreWhitespace is set and Compare has returned no difference
C5_Witness ==
    /\ Compared
    /\ options.IgnoreWhitespace
    /\ Len(source.Views) = 1
    /\ Len(target.Views) = 1
    /\ source.Views[1].Definition = <<"a", " ", "a">>
    /\ target.Views[1].Definition = <<"a", "\t", " ", "a">>
    /\ result.Differences = <<>>

(***************************************************************************)
(* C7  Summary consistency                                                 *)
(***************************************************************************)
\* the sum of the values of a map of counts
RECURSIVE SumOfCounts(_)
SumOfCounts(counts) ==
    IF DOMAIN counts = {} THEN 0
    ELSE LET c == CHOOSE c \in DOMAIN counts : TRUE
         IN  counts[c] + SumOfCounts([k \in DOMAIN counts \ {c} |-> counts[k]])

SummaryConsistent(r) ==
    /\ r.Summary.TotalDifferences = Len(r.Differences)
    /\ r.Summary.Added + r.Summary.Removed + r.Summary.Modified
          = r.Summary.TotalDifferences
    /\ SumOfCounts(r.Summary.ByCategory) = r.Summary.TotalDifferences
    /\ HasDifferences(r) <=> r.Summary.TotalDifferences > 0

\* C7: in every DiffResult returned by Compare, Summary.TotalDifferences is
\* the length of Differences, Added + Removed + Modified is that total, the
\* values of ByCategory sum to that total, and HasDifferences() holds
\* exactly when the total is positive.
C7_SummaryConsistency ==
    /\ Compared => SummaryConsistent(result)
    /\ Swapped => SummaryConsistent(reverse)

\* a returned result that holds all three kinds of difference, in more than
\* one category, with their counts in its summary
C7_Witness ==
    /\ Compared
    /\ result.Summary.Added > 0
    /\ result.Summary.Removed > 0
    /\ result.Summary.Modified > 0
    /\ Cardinality(DOMAIN result.Summary.ByCategory) > 1
    /\ result.Summary.TotalDifferences = Len(result.Differences)

(***************************************************************************)
(* C8  A foreign key removed                                               *)
(***************************************************************************)
\* the statement that declares foreign key fk over one column pair
RedeclaredForeignKey(fk) ==
    "ALTER TABLE [" \o fk.SchemaName \o "].[" \o fk.TableName \o
    "] ADD CONSTRAINT [" \o fk.Name \o "] FOREIGN KEY (\n    [" \o
    fk.Columns[1].ColumnName \o "]\n) REFERENCES [" \o
    fk.ReferencedSchemaName \o "].[" \o fk.ReferencedTableName \o
    "] (\n    [" \o fk.Columns[1].ReferencedColumnName \o "]\n)" \o
    (CASE fk.DeleteAction = "SET_NULL" -> " ON DELETE SET NULL"
       [] fk.DeleteAction = "CASCADE"  -> " ON DELETE CASCADE"
       [] OTHER -> "") \o
    (CASE fk.UpdateAction = "SET_NULL" -> " ON UPDATE SET NULL"
       [] fk.UpdateAction = "CASCADE"  -> " ON UPDATE CASCADE"
       [] OTHER -> "")

\* C8: a foreign key of a source table that the same-named target table
\* lacks (tables and foreign keys included) yields exactly one difference
\* for it: Removed, category FOREIGN_KEY, object name
\* "[schema].[table].<fk name>", with a non-empty migration fragment that
\* declares the constraint again as the source foreign key renders it.
C8_ForeignKeyRemoved ==
    Compared =>
        \A i \in DOMAIN source.Tables, j \in DOMAIN target.Tables :
            \A k \in DOMAIN source.Tables[i].ForeignKeys :
                LET st == source.Tables[i]
                    tt == target.Tables[j]
                    fk == st.ForeignKeys[k]
                    name == "[" \o st.SchemaName \o "].[" \o st.Name \o "]." \o fk.Name
                    about == About(result.Differences, DiffCategoryForeignKey, name)
                IN  (/\ st.SchemaName = tt.SchemaName
                     /\ st.Name = tt.Name
                     /\ options.IncludeTables
                     /\ options.IncludeForeignKeys
                     /\ \A m \in DOMAIN tt.ForeignKeys :
                           tt.ForeignKeys[m].Name # fk.Name) =>
                        /\ Cardinality(about) = 1
                        /\ \A n \in about :
                              /\ result.Differences[n].Type = DiffRemoved
                              /\ result.Differences[n].MigrationSQL # ""
                              /\ result.Differences[n].MigrationSQL =
                                    RedeclaredForeignKey(fk) \o ";"

\* both sides hold dbo.Orders, only the source holds FK_Orders_Users, and the
\* result holds its Removed record with the constraint declared again
C8_Witness ==
    /\ Compared
    /\ \E i \in DOMAIN source.Tables :
          /\ source.Tables[i].Name = "Orders"
          /\ Len(source.Tables[i].ForeignKeys) = 1
    /\ \E j \in DOMAIN target.Tables :
          /\ target.Tables[j].Name = "Orders"
          /\ target.Tables[j].ForeignKeys = <<>>
    /\ \E n \in DOMAIN result.Differences :
          /\ result.Differences[n].Type = "REMOVED"
          /\ result.Differences[n].Category = "FOREIGN_KEY"
          /\ result.Differences[n].ObjectName = "[dbo].[Orders].FK_Orders_Users"
          /\ result.Differences[n].MigrationSQL =
                "ALTER TABLE [dbo].[Orders] ADD CONSTRAINT [FK_Orders_Users] FOREIGN KEY (\n    [Id]\n) REFERENCES [dbo].[Users] (\n    [Id]\n) ON DELETE SET NULL;"

(***************************************************************************)
(* C9  Fixed category sequence of the result                               *)
(***************************************************************************)
\* the fixed sequence of the categories
CategorySequence ==
    <<DiffCategorySchema, DiffCategoryTable, DiffCategoryColumn,
      DiffCategoryIndex, DiffCategoryForeignKey, DiffCategoryConstraint,
      DiffCategoryView, DiffCategoryProcedure, DiffCategoryFunction,
      DiffCategoryTrigger>>

Rank(category) ==
    CHOOSE n \in DOMAIN CategorySequence : CategorySequence[n] = category

InCategorySequence(diffs) ==
    \A a, b \in DOMAIN diffs :
        a < b => Rank(diffs[a].Category) <= Rank(diffs[b].Category)

\* C9: in the Differences list returned by Compare no difference of a later
\* category precedes a difference of an earlier category in the sequence
\* Schema, Table, Column, Index, ForeignKey, Constraint, View, Procedure,
\* Function, Trigger, whatever the two schemas.
C9_FixedCategorySequence ==
    Compared => InCategorySequence(result.Differences)

\* two tables present on both sides each have a difference, and the result
\* lists a CONSTRAINT record of the one before a COLUMN record of the other
C9_OutOfSequence ==
    /\ Compared
    /\ Len(source.Tables) = 2
    /\ Len(target.Tables) = 2
    /\ \E a, b \in DOMAIN result.Differences :
          /\ a < b
          /\ result.Differences[a].Category = DiffCategoryConstraint
          /\ result.Differences[b].Category = DiffCategoryColumn

(***************************************************************************)
(* C10  Report grouping                                                    *)
(***************************************************************************)
\* the positions of the report, after its four header lines, that hold the
\* section header of this category
HeadersOf(category) ==
    {n \in 5..Len(report) : report[n] = SectionHeader(category)}

\* C10: after its four header lines PrintGitStyle writes exactly one section
\* header "@@ <CATEGORY> @@" for each category that has a difference and
\* none for the others, the lines of all the differences of the category
\* directly under it, and the sections in the fixed category order.
C10_ReportGrouping ==
    Printed =>
        /\ \A n \in DOMAIN CategorySequence :
              LET category == CategorySequence[n]
                  own == FilterByCategory(result.Differences, category)
              IN  /\ Cardinality(HeadersOf(category)) =
                        (IF own = <<>> THEN 0 ELSE 1)
                  /\ \A h \in HeadersOf(category) :
                        /\ h + Len(own) <= Len(report)
                        /\ \A k \in DOMAIN own :
                              report[h + k] = DifferenceString(own[k])
        /\ \A m, n \in DOMAIN CategorySequence :
              \A g \in HeadersOf(CategorySequence[m]),
                 h \in HeadersOf(CategorySequence[n]) :
                  g < h => m < n

\* the printed report holds the section "@@ CONSTRAINT @@" above the
\* section "@@ COLUMN @@"
C10_SectionsOutOfOrder ==
    /\ Printed
    /\ \E g \in HeadersOf(DiffCategoryConstraint),
          h \in HeadersOf(DiffCategoryColumn) : g < h

(***************************************************************************)
(* C11  Migration script content and order                                 *)
(***************************************************************************)
\* the blocks of a script from line p on: the two lines above every "GO"
RECURSIVE BlocksFrom(_, _)
BlocksFrom(lines, p) ==
    IF p > Len(lines) THEN <<>>
    ELSE (IF lines[p] = "GO" /\ p >= 3
          THEN <<<<lines[p - 2], lines[p - 1]>>>> ELSE <<>>)
         \o BlocksFrom(lines, p + 1)

\* the description comment and fragment of the differences of this category
\* that carry a fragment, in list order
RECURSIVE FragmentsOf(_, _)
FragmentsOf(diffs, category) ==
    IF Len(diffs) = 0 THEN <<>>
    ELSE (IF diffs[1].Category = category /\ diffs[1].MigrationSQL # ""
          THEN <<<<"-- " \o diffs[1].Description, diffs[1].MigrationSQL>>>>
          ELSE <<>>)
         \o FragmentsOf(Tail(diffs), category)

\* those of every category from number n of the fixed sequence on
RECURSIVE FragmentsInSequence(_, _)
FragmentsInSequence(diffs, n) ==
    IF n > Len(CategorySequence) THEN <<>>
    ELSE FragmentsOf(diffs, CategorySequence[n])
         \o FragmentsInSequence(diffs, n + 1)

DroppingFragments(s) ==
    UNION {LET t == s.Tables[i]
               table == "[" \o t.SchemaName \o "].[" \o t.Name \o "]"
               constraints ==
                   {t.ForeignKeys[k].Name : k \in DOMAIN t.ForeignKeys}
                   \cup {t.CheckConstraints[k].Name : k \in DOMAIN t.CheckConstraints}
                   \cup {t.PrimaryKey[k].Name : k \in DOMAIN t.PrimaryKey}
           IN  {"DROP TABLE " \o table \o ";"}
               \cup {"ALTER TABLE " \o table \o " DROP COLUMN [" \o
                        t.Columns[k].Name \o "];" : k \in DOMAIN t.Columns}
               \cup {"DROP INDEX [" \o t.Indexes[k].Name \o "] ON " \o table \o ";" :
                        k \in DOMAIN t.Indexes}
               \cup {"ALTER TABLE " \o table \o " DROP CONSTRAINT [" \o name \o "];" :
                        name \in constraints}
           : i \in DOMAIN s.Tables}
    \cup {"DROP VIEW " \o QualifiedName(s.Views[i]) \o ";" : i \in DOMAIN s.Views}
    \cup {"DROP PROCEDURE " \o QualifiedName(s.StoredProcedures[i]) \o ";" :
             i \in DOMAIN s.StoredProcedures}
    \cup {"DROP FUNCTION " \o QualifiedName(s.Functions[i]) \o ";" :
             i \in DOMAIN s.Functions}
    \cup {"DROP TRIGGER " \o QualifiedName(s.Triggers[i]) \o ";" :
             i \in DOMAIN s.Triggers}

\* C13: every Added difference Compare returns (object only in target), in
\* every category, carries a non-empty fragment that drops that object
\* (DROP ... or ALTER TABLE ... DROP ...), and no Removed difference
\* carries a dropping fragment.
C13_MigrationDirection ==
    Compared =>
        \A n \in DOMAIN result.Differences :
            LET d == result.Differences[n]
            IN  /\ d.Type = DiffAdded =>
                      /\ d.MigrationSQL # ""
                      /\ d.MigrationSQL \in DroppingFragments(target)
                /\ d.Type = DiffRemoved =>
                      d.MigrationSQL \notin
                          DroppingFragments(source) \cup DroppingFragments(target)

\* the view exists only in target and its Added record carries no fragment
C13_AddedWithoutFragment ==
    /\ Compared
    /\ source.Views = <<>>
    /\ Len(target.Views) = 1
    /\ \E n \in DOMAIN result.Differences :
          /\ result.Differences[n].Type = DiffAdded
          /\ result.Differences[n].Category = DiffCategoryView
          /\ result.Differences[n].MigrationSQL = ""

(***************************************************************************)
(* C14  Option gating                                                      *)
(***************************************************************************)
CategoriesOf(diffs) == {diffs[n].Category : n \in DOMAIN diffs}

\* the categories the options switch off, an Include flag at a time
GatedCategories(opts) ==
    (IF opts.IncludeIndexes THEN {} ELSE {DiffCategoryIndex})
    \cup (IF opts.IncludeForeignKeys THEN {} ELSE {DiffCategoryForeignKey})
    \cup (IF opts.IncludeConstraints THEN {} ELSE {DiffCategoryConstraint})
    \cup (IF opts.IncludeViews THEN {} ELSE {DiffCategoryView})
    \cup (IF opts.IncludeProcedures THEN {} ELSE {DiffCategoryProcedure})
    \cup (IF opts.IncludeFunctions THEN {} ELSE {DiffCategoryFunction})
    \cup (IF opts.IncludeTriggers THEN {} ELSE {DiffCategoryTrigger})
    \cup (IF opts.IncludeTables THEN {}
          ELSE {DiffCategoryTable, DiffCategoryColumn, DiffCategoryIndex,
                DiffCategoryForeignKey, DiffCategoryConstraint})

\* C14 as claimed: for each Include<X> option that is false the result of
\* Compare holds no difference of the corresponding category (INDEX,
\* FOREIGN_KEY, CONSTRAINT, VIEW, PROCEDURE, FUNCTION, TRIGGER), and
\* IncludeTables false removes every TABLE, COLUMN, INDEX, FOREIGN_KEY and
\* CONSTRAINT difference.
C14_OptionGating ==
    Compared =>
        CategoriesOf(result.Differences) \cap GatedCategories(options) = {}

\* the object names comparePrimaryKeys files its records under
PrimaryKeyObjects(s) ==
    UNION {{Bracketed(s.Tables[i].SchemaName, s.Tables[i].Name) \o ".PK"}
           \cup {Bracketed(s.Tables[i].SchemaName, s.Tables[i].Name) \o "." \o
                    s.Tables[i].PrimaryKey[k].Name :
                        k \in DOMAIN s.Tables[i].PrimaryKey}
           : i \in DOMAIN s.Tables}

\* C14 as amended: the same, except that IncludeConstraints false removes
\* the check-constraint differences only; with IncludeTables true the
\* primary-key differences, filed under CONSTRAINT too, stay.
C14_OptionGatingButPrimaryKey ==
    Compared =>
        \A n \in DOMAIN result.Differences :
            LET d == result.Differences[n]
            IN  d.Category \in GatedCategories(options) =>
                    /\ d.Category = DiffCategoryConstraint
                    /\ options.IncludeTables
                    /\ d.ObjectName \in PrimaryKeyObjects(source)
                                        \cup PrimaryKeyObjects(target)

\* the check constraint exists only in source, tables are included,
\* IncludeConstraints is off, and Compare has returned no difference
C14_Witness ==
    /\ Compared
    /\ options.IncludeTables
    /\ ~options.IncludeConstraints
    /\ source = MkSchema(FullShape, BaseDefinition, FALSE)
    /\ target = MkSchema(Without(FullShape, <<"check", "Users">>),
                         BaseDefinition, FALSE)
    /\ result.Differences = <<>>

(***************************************************************************)
(* C15  Included index columns                                             *)
(***************************************************************************)
\* the key columns of an index column list, in order, with their direction
RECURSIVE KeyColumnsOf(_)
KeyColumnsOf(cols) ==
    IF Len(cols) = 0 THEN <<>>
    ELSE (IF cols[1].IsIncluded THEN <<>>
          ELSE <<<<cols[1].Name, cols[1].IsDescending>>>>)
         \o KeyColumnsOf(Tail(cols))

\* its included columns, as a set
IncludedColumnsOf(cols) ==
    {cols[n].Name : n \in {m \in DOMAIN cols : cols[m].IsIncluded}}

\* the index of the one table of s
TheIndex(s) == s.Tables[1].Indexes[1]

ColumnsRecords(diffs) ==
    {n \in DOMAIN diffs :
        /\ diffs[n].Type = DiffModified
        /\ diffs[n].Category = DiffCategoryIndex
        /\ diffs[n].PropertyName = "Columns"}

\* C15: two same-named indexes with the same uniqueness, clustering and
\* key-column list whose included columns are the same set, in whatever
\* order, produce no difference (no Modified record for "Columns"), while a
\* change in key-column order or direction does produce one.
C15_IncludedColumnsUnordered ==
    Compared =>
        LET src == TheIndex(source)
            tgt == TheIndex(target)
        IN  /\ (/\ src.IsUnique = tgt.IsUnique
                /\ src.IsClustered = tgt.IsClustered
                /\ KeyColumnsOf(src.Columns) = KeyColumnsOf(tgt.Columns)
                /\ IncludedColumnsOf(src.Columns) = IncludedColumnsOf(tgt.Columns))
                  => result.Differences = <<>>
            /\ KeyColumnsOf(src.Columns) # KeyColumnsOf(tgt.Columns)
                  => Cardinality(ColumnsRecords(result.Differences)) = 1

\* both indexes have the key column Id; source includes Email then Name,
\* target Name then Email; the result holds a Modified "Columns" record
C15_IncludedOrderReported ==
    /\ Compared
    /\ TheIndex(source).IsUnique = TheIndex(target).IsUnique
    /\ TheIndex(source).IsClustered = TheIndex(target).IsClustered
    /\ KeyColumnsOf(TheIndex(source).Columns) = <<<<"Id", FALSE>>>>
    /\ KeyColumnsOf(TheIndex(target).Columns) = <<<<"Id", FALSE>>>>
    /\ Len(TheIndex(source).Columns) = 3
    /\ Len(TheIndex(target).Columns) = 3
    /\ TheIndex(source).Columns[2].Name = "Email"
    /\ TheIndex(target).Columns[2].Name = "Name"
    /\ IncludedColumnsOf(TheIndex(target).Columns) = {"Email", "Name"}
    /\ Len(result.Differences) = 1
    /\ result.Differences[1].PropertyName = "Columns"
    /\ result.Differences[1].SourceValue = "Id, Email (INCLUDE), Name (INCLUDE)"
    /\ result.Differences[1].TargetValue = "Id, Name (INCLUDE), Email (INCLUDE)"

(***************************************************************************)
(* C16  Matching is by name only                                           *)
(***************************************************************************)
\* the multiset of the records of a difference list
Multiset(diffs) ==
    [d \in {diffs[n] : n \in DOMAIN diffs} |->
        Cardinality({n \in DOMAIN diffs : diffs[n] = d})]

\* the names of the columns of the i-th table of s, in list order
ColumnOrder(s, i) ==
    [k \in DOMAIN s.Tables[i].Columns |-> s.Tables[i].Columns[k].Name]

\* C16: permuting the tables, views, routines or triggers of a schema,
\* permuting the column, index, foreign-key or check-constraint lists of a
\* table, or changing only OrdinalPosition values, never changes the
\* multiset of differences; in particular two tables with the same named
\* columns in different declaration order compare with zero differences.
C16_MatchingByName ==
    /\ pc = "rearranged" =>
          Multiset(reverse.Differences) = Multiset(result.Differences)
    /\ (/\ pc = "compared"
        /\ \E p \in Rearrangements : source = Rearranged(target, p)) =>
          result.Differences = <<>>

\* the columns of dbo.Users are listed Name, Email, Id in source and Id,
\* Email, Name in target, the schemas are otherwise equal, Compare has
\* returned no difference, and so has the run on rearranged lists
C16_Witness ==
    /\ pc = "rearranged"
    /\ Len(source.Tables) = 2
    /\ Len(target.Tables) = 2
    /\ ColumnOrder(source, 2) = <<"Name", "Email", "Id">>
    /\ ColumnOrder(target, 2) = <<"Id", "Email", "Name">>
    /\ source = Rearranged(target, "columns")
    /\ result.Differences = <<>>
    /\ reverse.Differences = <<>>

(***************************************************************************)
(* C17  The three outcomes of the primary-key comparison                   *)
(***************************************************************************)
\* the key columns of a primary key in order, each with its direction
OrderedKey(pk) ==
    [n \in DOMAIN pk[1].Columns |->
        <<pk[1].Columns[n].Name, pk[1].Columns[n].IsDescending>>]

ExactlyOne(diffs, type) ==
    /\ Len(diffs) = 1
    /\ diffs[1].Type = type
    /\ diffs[1].Category = DiffCategoryConstraint

\* C17: no primary key on either side gives nothing; one only in target
\* gives exactly one Added record and one only in source exactly one
\* Removed record; with one on both sides there is exactly one Modified
\* record, of property "Columns" and carrying both rendered lists, iff the
\* ordered direction-annotated column lists differ, so a change of only
\* the name or the clustering gives nothing.
C17_PrimaryKeyOutcomes ==
    Compared =>
        LET src == source.Tables[1].PrimaryKey
            tgt == target.Tables[1].PrimaryKey
            diffs == result.Differences
        IN  /\ (src = Nil /\ tgt = Nil) => diffs = <<>>
            /\ (src = Nil /\ tgt # Nil) => ExactlyOne(diffs, DiffAdded)
            /\ (src # Nil /\ tgt = Nil) => ExactlyOne(diffs, DiffRemoved)
            /\ (src # Nil /\ tgt # Nil) =>
                  IF OrderedKey(src) # OrderedKey(tgt)
                  THEN /\ ExactlyOne(diffs, DiffModified)
                       /\ diffs[1].PropertyName = "Columns"
                       /\ diffs[1].SourceValue = indexColumnsToString(src[1].Columns)
                       /\ diffs[1].TargetValue = indexColumnsToString(tgt[1].Columns)
                       /\ diffs[1].SourceValue # diffs[1].TargetValue
                  ELSE diffs = <<>>

\* both sides have a primary key on Id then Email; they differ in name, in
\* clustering and in the direction of Email, and the one record carries
\* both renderings
C17_Witness ==
    /\ Compared
    /\ source.Tables[1].PrimaryKey # Nil
    /\ target.Tables[1].PrimaryKey # Nil
    /\ source.Tables[1].PrimaryKey[1].Name # target.Tables[1].PrimaryKey[1].Name
    /\ source.Tables[1].PrimaryKey[1].IsClustered
    /\ ~target.Tables[1].PrimaryKey[1].IsClustered
    /\ Len(result.Differences) = 1
    /\ result.Differences[1].SourceValue = "Id, Email"
    /\ result.Differences[1].TargetValue = "Id, Email DESC"

(***************************************************************************)
(* C18  Foreign keys and check constraints are compared by existence       *)
(***************************************************************************)
TheForeignKey(s) == s.Tables[1].ForeignKeys[1]
TheCheckConstraint(s) == s.Tables[1].CheckConstraints[1]

RecordsOf(diffs, category) ==
    {n \in DOMAIN diffs : diffs[n].Category = category}

\* C18: a foreign key of the same name on both sides yields no difference,
\* whatever its referenced schema or table, its column pairs or its delete
\* and update actions are on either side; a check constraint of the same
\* name on both sides yields none, whatever its definition or disabled flag.
C18_ExistenceOnly ==
    Compared =>
        /\ TheForeignKey(source).Name = TheForeignKey(target).Name =>
              RecordsOf(result.Differences, DiffCategoryForeignKey) = {}
        /\ TheCheckConstraint(source).Name = TheCheckConstraint(target).Name =>
              RecordsOf(result.Differences, DiffCategoryConstraint) = {}

\* the two foreign keys share their name and differ in referenced table,
\* column pairs and delete action, the two check constraints share their
\* name and differ in definition and disabled flag, and Compare has
\* returned no difference at all
C18_Witness ==
    /\ Compared
    /\ TheForeignKey(source).Name = TheForeignKey(target).Name
    /\ TheForeignKey(source).ReferencedTableName #
          TheForeignKey(target).ReferencedTableName
    /\ TheForeignKey(source).Columns # TheForeignKey(target).Columns
    /\ TheForeignKey(source).DeleteAction # TheForeignKey(target).DeleteAction
    /\ TheCheckConstraint(source).Name = TheCheckConstraint(target).Name
    /\ TheCheckConstraint(source).Definition # TheCheckConstraint(target).Definition
    /\ TheCheckConstraint(source).IsDisabled # TheCheckConstraint(target).IsDisabled
    /\ result.Differences = <<>>

(***************************************************************************)
(* C19  The output is set-equal across runs                                *)
(***************************************************************************)
\* C19: whatever order the maps are iterated in, Compare on the same
\* inputs returns the same multiset of Difference records and the same
\* summary; only the positions of the records vary.
C19_SetEqualAcrossRuns ==
    Compared =>
        \A run \in Compare(options, source, target) :
            /\ Multiset(run.Differences) = Multiset(result.Differences)
            /\ run.Summary = result.Summary

\* Compare has returned three or more records and another iteration order
\* returns the same records in other positions
C19_Witness ==
    /\ pc = "compared"
    /\ Len(result.Differences) >= 3
    /\ \E run \in Compare(options, source, target) :
          /\ run.Differences # result.Differences
          /\ Multiset(run.Differences) = Multiset(result.Differences)

(***************************************************************************)
(* C20  The output of the diff run                                         *)
(***************************************************************************)
\* write n of the output is the report or the summary of the result
IsReportWrite(n) ==
    /\ output[n].stream = "stdout"
    /\ \/ output[n].lines = PrintGitStyle(result)
       \/ output[n].lines \in printDiffSummary(result)

\* write n of the output carries the migration script, to stdout or to the
\* migration file
IsMigrationWrite(n) ==
    \/ output[n].stream \notin {"stdout", "stderr"}
    \/ /\ output[n].stream = "stdout"
       /\ output[n].lines = <<"">> \o GenerateMigrationScript(result)

\* the comparison has been made
CompareCalled == \E n \in DOMAIN calls : calls[n] = "comparator.Compare"

SuccessLine == <<"\\033[32m(ok) Schemas are identical\\033[0m">>

\* C20: when the comparison finds no difference runDiff reports success
\* and writes nothing further: no report, no summary, no migration script,
\* and no migration file whatever the flags; when there is a difference
\* the report is written for every output format, and before any migration
\* script is generated or written.
C20_RunDiffOutput ==
    /\ (pc \in {"reported", "returned"} /\ CompareCalled
           /\ ~HasDifferences(result)) =>
          /\ pc = "returned"
          /\ returned = NilError
          /\ \E n \in DOMAIN output :
                /\ output[n] = Emit("stdout", SuccessLine)
                /\ n = Len(output)
                /\ \A m \in 1..(n - 1) : output[m].stream = "stderr"
          /\ report = <<>>
          /\ script = <<>>
    /\ (pc \in {"reported", "returned"} /\ HasDifferences(result)) =>
          \E n \in DOMAIN output : IsReportWrite(n)
    /\ \A m \in DOMAIN output :
          IsMigrationWrite(m) => \E n \in 1..(m - 1) : IsReportWrite(n)
    /\ script # <<>> => \E n \in DOMAIN output : IsReportWrite(n)

\* a run with differences under a format the switch does not name, with
\* --generate-migration and --migration-file: the report was written to
\* stdout and the script to the file after it
C20_Witness ==
    /\ pc = "returned"
    /\ HasDifferences(result)
    /\ flags.outputFormat = "json"
    /\ flags.generateMigration
    /\ flags.migrationFile # ""
    /\ \E m \in DOMAIN output :
          /\ output[m] = Emit(flags.migrationFile, script)
          /\ IsReportWrite(m - 1)

(***************************************************************************)
(* C21  Fail-fast ordering of the diff run                                 *)
(***************************************************************************)
Called(name) == \E n \in DOMAIN calls : calls[n] = name

\* the calls of a run that got as far as the two connections
BothConnected == <<"sourceAdapter.Connect", "targetAdapter.Connect">>

\* C21: both configurations are validated before any connection is opened;
\* a configuration, connection or extraction error ends the run at once
\* with an error naming the failing side and no call is repeated; after a
\* failed source extraction the target is never extracted; Compare is
\* called only after both extractions succeeded.
C21_FailFast ==
    /\ calls # <<>> =>
          /\ Validate(sourceConfig) = ""
          /\ targetConfig = DeriveTargetConfig(sourceConfig, targetFlags)
          /\ Validate(targetConfig) = ""
    /\ (pc # "runDiff" /\ Validate(sourceConfig) # "") =>
          /\ pc = "returned"
          /\ returned = "source configuration error: " \o Validate(sourceConfig)
    /\ (pc # "runDiff" /\ Validate(sourceConfig) = ""
           /\ Validate(DeriveTargetConfig(sourceConfig, targetFlags)) # "") =>
          /\ pc = "returned"
          /\ returned = "target configuration error: " \o
                Validate(DeriveTargetConfig(sourceConfig, targetFlags))
    /\ returned = "source connection failed" =>
          pc = "returned" /\ calls = <<"sourceAdapter.Connect">>
    /\ returned = "target connection failed" =>
          pc = "returned" /\ calls = BothConnected \o <<"sourceAdapter.Close">>
    /\ returned = "failed to extract source schema" =>
          /\ pc = "returned"
          /\ calls = BothConnected \o <<"sourceExtractor.ExtractSchema">> \o
                DeferredClose
    /\ returned = "failed to extract target schema" =>
          /\ pc = "returned"
          /\ calls = BothConnected \o <<"sourceExtractor.ExtractSchema",
                "targetExtractor.ExtractSchema">> \o DeferredClose
    /\ \A n \in DOMAIN calls :
          calls[n] = "comparator.Compare" =>
              /\ n = 5
              /\ SubSeq(calls, 1, 4) = BothConnected \o
                    <<"sourceExtractor.ExtractSchema",
                      "targetExtractor.ExtractSchema">>
              /\ returned \in {Running, NilError, "failed to write migration file"}
    /\ \A n \in DOMAIN calls, m \in DOMAIN calls :
          calls[n] = calls[m] => n = m

\* the source extraction failed after both connections were opened: the
\* run has returned its error, the target was not extracted and nothing
\* was compared
C21_Witness ==
    /\ pc = "returned"
    /\ returned = "failed to extract source schema"
    /\ Called("targetAdapter.Connect")
    /\ ~Called("targetExtractor.ExtractSchema")
    /\ ~Called("comparator.Compare")
    /\ result = NoResult

(***************************************************************************)
(* C22  The target configuration inherits from the source                  *)
(***************************************************************************)
\* only --target-database is given
OnlyTargetDatabase ==
    /\ targetFlags.targetDatabase # ""
    /\ targetFlags = [DefaultTargetFlags EXCEPT
          !.targetDatabase = targetFlags.targetDatabase]

\* C22: for every source configuration that passes Validate, under SQL or
\* trusted authentication, and a --target-database with no other
\* --target-* flag, the derived target configuration has the source's
\* server, port, user, password and authentication mode and passes
\* Validate.
C22_TargetInherits ==
    (pc # "runDiff" /\ Validate(sourceConfig) = "" /\ OnlyTargetDatabase) =>
        /\ targetConfig.Server = sourceConfig.Server
        /\ targetConfig.Port = sourceConfig.Port
        /\ targetConfig.User = sourceConfig.User
        /\ targetConfig.Password = sourceConfig.Password
        /\ targetConfig.TrustedAuth = sourceConfig.TrustedAuth
        /\ Validate(targetConfig) = ""

\* the source uses trusted authentication without a user and passes
\* Validate, only --target-database is given, and the run has ended with a
\* target configuration error: the derived target is not trusted
C22_TrustedNotInherited ==
    /\ pc = "returned"
    /\ sourceConfig.TrustedAuth
    /\ sourceConfig.User = ""
    /\ Validate(sourceConfig) = ""
    /\ OnlyTargetDatabase
    /\ ~targetConfig.TrustedAuth
    /\ returned = "target configuration error: user is required for SQL authentication"

(***************************************************************************)
(* C23  The approval levels of the interactive approver                    *)
(***************************************************************************)
Did(what) == \E n \in DOMAIN outcome.trace : outcome.trace[n] = what

\* the line read came to its newline
LineComplete == outcome.line # <<>> /\ outcome.line[Len(outcome.line)] = "\n"

\* the lines of the family that spell y or yes, and those that spell the
\* confirmation word, once trimmed
YesLines ==
    {<<"y", "\n">>, <<"Y", "\n">>, <<"y", "e", "s", "\n">>,
     <<"Y", "e", "S", "\n">>, <<" ", "y", "\r", "\n">>}

ConfirmLines == {Confirm \o <<"\n">>, <<" ">> \o Confirm \o <<"\r", "\n">>}

\* C23: a ReadOnly request is approved without reading any input; a
\* Modification request is approved iff the line read, trimmed and
\* lower-cased, is "y" or "yes"; a Destructive request iff the trimmed
\* line is exactly "CONFIRM"; any other level returns not-approved with an
\* error, and so does a read failure.
C23_ApprovalLevels ==
    outcome.op = "RequestApproval" =>
        /\ outcome.level = ReadOnly =>
              outcome.approved /\ outcome.err = "" /\ ~Did("read")
        /\ (outcome.level = Modification /\ LineComplete) =>
              /\ outcome.err = ""
              /\ outcome.approved <=> outcome.line \in YesLines
        /\ (outcome.level = Destructive /\ LineComplete) =>
              /\ outcome.err = ""
              /\ outcome.approved <=> outcome.line \in ConfirmLines
        /\ outcome.level \notin {ReadOnly, Modification, Destructive} =>
              ~outcome.approved /\ outcome.err # "" /\ ~Did("read")
        /\ (outcome.level \in {Modification, Destructive} /\ ~LineComplete) =>
              ~outcome.approved /\ outcome.err # "" /\ Did("read")

\* a Modification request read "YeS" and was approved
C23_Witness ==
    /\ outcome.op = "RequestApproval"
    /\ outcome.level = Modification
    /\ outcome.line = <<"Y", "e", "S", "\n">>
    /\ outcome.approved
    /\ Len(stdin) = 1

(***************************************************************************)
(* C24  Dry-run                                                            *)
(***************************************************************************)
\* C24: with --dry-run set no SQL is ever executed through
\* ExecuteWithApproval, whatever the approval level, ReadOnly included.
C24_DryRunExecutesNothing == dryRun => executed = <<>>

\* --dry-run is set, the adapter still has the approver NewAdapter gave it,
\* and a ReadOnly ExecuteWithApproval has handed its SQL to the database
C24_DryRunExecuted ==
    /\ dryRun
    /\ approver = "InteractiveApprover"
    /\ outcome.op = "ExecuteWithApproval"
    /\ outcome.level = ReadOnly
    /\ outcome.err = ""
    /\ executed = <<outcome.sql>>

(***************************************************************************)
(* C26  The approval gate on execution                                     *)
(***************************************************************************)
\* the positions of an event in the last call
Positions(what) == {n \in DOMAIN outcome.trace : outcome.trace[n] = what}

\* C26: ExecuteWithApproval hands the SQL to the database only when the
\* adapter is connected and the approver returned approved with no error;
\* when the approver denies or fails, or the adapter is not connected, the
\* call returns an error and nothing is executed; the approver is
\* consulted at most once per call and before the execution.
C26_ApprovalGate ==
    outcome.op = "ExecuteWithApproval" =>
        /\ Did("ExecContext") =>
              /\ db # "nil"
              /\ outcome.approved
              /\ outcome.err \in {"", "execution failed"}
              /\ \A x \in Positions("ExecContext"), r \in Positions("RequestApproval") :
                    r < x
              /\ Cardinality(Positions("RequestApproval")) = 1
        /\ (Did("ExecContext") /\ db = "open") =>
              (executed # <<>> /\ executed[Len(executed)] = outcome.sql)
        /\ outcome.err = "" => (Did("ExecContext") /\ db = "open")
        /\ (db = "nil" \/ ~outcome.approved) =>
              outcome.err # "" /\ ~Did("ExecContext")
        /\ Cardinality(Positions("RequestApproval")) <= 1
        /\ Cardinality(Positions("ExecContext")) <= 1

\* a Destructive request on a connected adapter read the confirmation word
\* and its SQL was executed
C26_Witness ==
    /\ outcome.op = "ExecuteWithApproval"
    /\ outcome.level = Destructive
    /\ outcome.approved
    /\ outcome.err = ""
    /\ outcome.trace = <<"RequestApproval", "display", "read", "ExecContext">>
    /\ executed = <<"DROP TABLE Users">>

(***************************************************************************)
(* C27  The connection lifecycle of the adapter                            *)
(***************************************************************************)
\* C27: while no Connect has succeeded (a.db is nil, as NewAdapter leaves
\* it) Ping, GetServerInfo and ExecuteWithApproval return "not connected"
\* and Close returns nil without effect; a Connect that fails leaves the
\* adapter not connected, and only a Connect that succeeds connects it.
C27_ConnectionLifecycle ==
    [][db = "nil" =>
          /\ outcome'.op \in {"Ping", "GetServerInfo", "ExecuteWithApproval"} =>
                /\ outcome'.err = "not connected"
                /\ executed' = executed
          /\ outcome'.op = "Close" =>
                outcome'.err = "" /\ db' = "nil" /\ executed' = executed
          /\ (outcome'.op = "Connect" /\ outcome'.err # "") => db' = "nil"
          /\ db' # "nil" => (outcome'.op = "Connect" /\ outcome'.err = "")]_vars

\* a valid configuration, a Connect whose ping failed, and the adapter is
\* still not connected
C27_Witness ==
    /\ Validate(config) = ""
    /\ outcome.op = "Connect"
    /\ outcome.err = "failed to ping database"
    /\ db = "nil"

(***************************************************************************)
(* C25  The length clause of a rendered column                             *)
(***************************************************************************)
\* the column the source has and the target lacks
TheColumn == source.Tables[1].Columns[2]

\* the type classes of the claim, spelled as the family spells them
MaxTypes ==
    {"varchar", "VarChar", "VARCHAR", "nvarchar", "NVARCHAR", "char", "NChar",
     "varbinary", "Binary"}

HalvedTypes == {"nvarchar", "NVARCHAR", "NChar"}

PrecisionTypes == {"decimal", "Decimal", "numeric"}

ScaleTypes == {"datetime2", "datetimeoffset", "time", "TIME"}

\* the length clause the claim gives column c
LengthClause(c) ==
    CASE c.DataType \in MaxTypes /\ c.MaxLength = -1 -> "(MAX)"
      [] c.DataType \in HalvedTypes /\ c.MaxLength # -1 ->
            "(" \o ToString(CHOOSE h \in 0..c.MaxLength :
                                c.MaxLength \in {2 * h, 2 * h + 1}) \o ")"
      [] c.DataType \in MaxTypes \ HalvedTypes /\ c.MaxLength # -1 ->
            "(" \o ToString(c.MaxLength) \o ")"
      [] c.DataType \in PrecisionTypes ->
            "(" \o ToString(c.Precision) \o "," \o ToString(c.Scale) \o ")"
      [] c.DataType \in ScaleTypes /\ c.Scale > 0 ->
            "(" \o ToString(c.Scale) \o ")"
      [] OTHER -> ""

\* C25: the ADD COLUMN fragment of a column missing in the target renders
\* the column's type with "(MAX)" for a MaxLength of -1 on the six
\* character and binary types, half the MaxLength on the N-prefixed ones,
\* the MaxLength itself on the others, "(precision,scale)" on DECIMAL and
\* NUMERIC, "(scale)" on the three time types when the scale is positive,
\* and no length clause otherwise, whatever the case of the type name.
C25_LengthClause ==
    Compared =>
        \E d \in DOMAIN result.Differences :
            /\ result.Differences[d].Type = DiffRemoved
            /\ result.Differences[d].Category = DiffCategoryColumn
            /\ result.Differences[d].MigrationSQL =
                   "ALTER TABLE [dbo].[Users] ADD [Email] " \o TheColumn.DataType \o
                   LengthClause(TheColumn) \o " NULL;"

\* an NCHAR column of seven bytes is rendered with three characters
C25_Witness ==
    /\ Compared
    /\ TheColumn.DataType = "NChar"
    /\ TheColumn.MaxLength = 7
    /\ \E d \in DOMAIN result.Differences :
          result.Differences[d].MigrationSQL =
              "ALTER TABLE [dbo].[Users] ADD [Email] NChar(3) NULL;"

(***************************************************************************)
(* C28  The counts of terminators and category headings in a script        *)
(***************************************************************************)
\* the number of lines of a script that are one of the given lines
CountLines(lines, given) == Cardinality({n \in DOMAIN lines : lines[n] \in given})

\* the heading of a category
Banner(category) == "-- " \o category \o " Changes"

Banners == {Banner(categories[n]) : n \in DOMAIN categories}

\* the categories with a difference, and those with a fragment
CategoriesWithDifference ==
    {result.Differences[n].Category : n \in DOMAIN result.Differences}

CategoriesWithFragment ==
    {result.Differences[n].Category :
        n \in {m \in DOMAIN result.Differences :
                  result.Differences[m].MigrationSQL # ""}}

TerminatorsMatchFragments ==
    CountLines(script, {"GO"}) =
        Cardinality({n \in DOMAIN result.Differences :
                        result.Differences[n].MigrationSQL # ""})

\* C28 as stated: the script holds one GO per difference with a non-empty
\* MigrationSQL, and one heading per category that contributes a fragment.
C28_ScriptCounts ==
    Scripted =>
        /\ TerminatorsMatchFragments
        /\ CountLines(script, Banners) = Cardinality(CategoriesWithFragment)

\* C28 amended: the script holds one GO per difference with a non-empty
\* MigrationSQL, and one heading per category that has a difference,
\* whether or not any of its differences carries a fragment.
C28_BannerPerCategory ==
    Scripted =>
        /\ TerminatorsMatchFragments
        /\ CountLines(script, Banners) = Cardinality(CategoriesWithDifference)
        /\ \A n \in DOMAIN categories :
              CountLines(script, {Banner(categories[n])}) =
                  IF categories[n] \in CategoriesWithDifference THEN 1 ELSE 0

\* a script with the COLUMN heading although no column difference carries
\* a fragment, next to a category that does contribute one
C28_Witness ==
    /\ Scripted
    /\ DiffCategoryColumn \in CategoriesWithDifference \ CategoriesWithFragment
    /\ CategoriesWithFragment # {}
    /\ CountLines(script, {Banner(DiffCategoryColumn)}) = 1
    /\ CountLines(script, {"GO"}) > 0

(***************************************************************************)
(* C29  Definition equality is an equivalence, and normalising idempotent  *)
(***************************************************************************)
\* the comparator found the two definitions of this module equal: the
\* result holds no difference of the module
FoundEqual(r, category, object) ==
    \A n \in DOMAIN r.Differences :
        ~(r.Differences[n].Category = category /\
          r.Differences[n].ObjectName = object)

\* the three texts of the equality family
TextA == source.Views[1].Definition
TextB == target.Views[1].Definition
TextC == target.Functions[1].Definition

EqualAB(r) == FoundEqual(r, DiffCategoryView, "[dbo].[ActiveUsers]")
EqualAA(r) == FoundEqual(r, DiffCategoryView, "[dbo].[AllUsers]")
EqualBC(r) == FoundEqual(r, DiffCategoryProcedure, "[dbo].[GetUser]")
EqualAC(r) == FoundEqual(r, DiffCategoryFunction, "[dbo].[fnTotal]")
EqualANormalA(r) == FoundEqual(r, DiffCategoryTrigger, "[dbo].[trAudit]")

\* C29: normalizeWhitespace applied twice gives what it gives applied once
\* (so a text and its normal form compare equal when white space is
\* ignored); definitionsEqual finds a text equal to itself, finds b equal
\* to a whenever it finds a equal to b, and finds a equal to c whenever it
\* finds a equal to b and b equal to c, under either setting of
\* IgnoreWhitespace; and texts found equal with IgnoreWhitespace false are
\* found equal with it true.
C29_DefinitionEquality ==
    /\ pc \in {"compared", "swapped", "ignoring"} =>
          /\ normalizeWhitespace(normalizeWhitespace(TextA)) =
                 normalizeWhitespace(TextA)
          /\ options.IgnoreWhitespace => EqualANormalA(result)
          /\ EqualAA(result)
          /\ (EqualAB(result) /\ EqualBC(result)) => EqualAC(result)
    /\ pc = "swapped" =>
          /\ EqualAB(result) <=> EqualAB(reverse)
          /\ EqualBC(result) <=> EqualBC(reverse)
          /\ EqualAC(result) <=> EqualAC(reverse)
          /\ EqualAA(reverse)
    /\ (pc = "ignoring" /\ ~options.IgnoreWhitespace) =>
          /\ EqualAB(result) => EqualAB(reverse)
          /\ EqualBC(result) => EqualBC(reverse)
          /\ EqualAC(result) => EqualAC(reverse)

\* three texts, no two the same, found equal to one another with white
\* space ignored, the longest of them not in normal form
C29_Witness ==
    /\ pc = "swapped"
    /\ options.IgnoreWhitespace
    /\ TextA # TextB /\ TextB # TextC /\ TextA # TextC
    /\ Len(TextA) = MaxDefLen - 1
    /\ normalizeWhitespace(TextA) # TextA
    /\ EqualAB(result) /\ EqualBC(result) /\ EqualAC(result)
    /\ EqualAB(reverse) /\ EqualANormalA(result)

\* two texts that differ in white space only: found different by the
\* comparator as configured, found equal by the one that ignores white space
C29_WitnessIgnoring ==
    /\ pc = "ignoring"
    /\ ~options.IgnoreWhitespace
    /\ ~EqualAB(result)
    /\ EqualAB(reverse)

(***************************************************************************)
(* C30  SafeString does not depend on the password                         *)
(***************************************************************************)
Passwords == {"", "secret", "hunter2", "***"}

\* the configurations that differ from c in Password at most
SamePasswordAside(c) == {[c EXCEPT !.Password = p] : p \in Passwords}

\* C30: SafeString returns the same text for configurations that differ
\* only in Password, with SQL and with trusted authentication, so the
\* "Connecting to source" and "Connecting to target" lines of diff are the
\* ones any other password would have given.
C30_PasswordConfidentiality ==
    /\ \A c \in {sourceConfig, targetConfig} :
          \A d \in SamePasswordAside(c) : SafeString(d) = SafeString(c)
    /\ Called("sourceAdapter.Connect") =>
          \A d \in SamePasswordAside(sourceConfig) :
              \E w \in DOMAIN output :
                  output[w] = Emit("stderr", <<"Connecting to source: " \o
                                               SafeString(d) \o "...">>)
    /\ Called("targetAdapter.Connect") =>
          \A d \in SamePasswordAside(targetConfig) :
              \E w \in DOMAIN output :
                  output[w] = Emit("stderr", <<"Connecting to target: " \o
                                               SafeString(d) \o "...">>)

\* SQL authentication with password hunter2: the source line shows the mask
C30_Witness ==
    /\ Called("targetAdapter.Connect")
    /\ ~sourceConfig.TrustedAuth
    /\ sourceConfig.Password = "hunter2"
    /\ targetConfig.Password = "hunter2"
    /\ \E w \in DOMAIN output :
          output[w].lines =
              <<"Connecting to source: Server=db1:1433; Database=Sales; " \o
                "User=sa; Password=***...">>

\* trusted authentication with a password given all the same
C30_WitnessTrusted ==
    /\ Called("sourceAdapter.Connect")
    /\ sourceConfig.TrustedAuth
    /\ sourceConfig.Password = "secret"
    /\ \E w \in DOMAIN output :
          output[w].lines =
              <<"Connecting to source: Server=db1:1433; Database=Sales; " \o
                "TrustedAuth=true...">>

=============================================================================
